---- MODULE Spec2Model ----
(***************************************************************************)
(* Protocol-classification engine of wallet2cointracking.                  *)
(*                                                                         *)
(* The classifier analyze_defi_interaction (app_new/services/defi.py) is   *)
(* modelled over Python values: strings are TLA+ strings, None/absent/int  *)
(* are tagged records.  The rule catalog is defi_config.py, entry by entry *)
(* and in declaration order (Python dicts iterate in insertion order).     *)
(*                                                                         *)
(* Spec is one call of the classifier.  SpecBatch is the two batch callers *)
(* of app.py, the job worker process_job and POST /get_transactions, over  *)
(* app.py's own analyze_defi_interaction.  SpecCalls is a run of several   *)
(* classifier calls, ill-typed transactions included.  SpecCache is the    *)
(* token-metadata cache of app_new/services/runtime.py.  SpecSave is the   *)
(* debounced save of app.py's cache.  SpecThreads is the classifier called *)
(* from several threads over the shared cache.  SpecJob is the job worker  *)
(* with its failure exit, under fair scheduling.                           *)
(***************************************************************************)
EXTENDS Integers, Sequences, FiniteSets, TLC

VARIABLES
    tx,         \* the transaction mapping handed to the classifier
    network,    \* the network string handed to the classifier
    provider,   \* the Metadata Provider's answers during the call
    result,     \* outcome of the call: NotCalled, Raised or Returned(mapping)
    pc,         \* "ready" before the call, "returned" after it
    networks,   \* the networks a batch request names, in order
    explorer,   \* what fetch_transactions_from_explorer gives, per network
    JOBS,       \* the job store's record of the job, NoJob before it starts
    worker,     \* per network: the process_network thread's position and locals
    all_transactions_local,     \* process_job's list of CSV rows
    response,   \* what POST /get_transactions answered, NoResponse before
    calls,      \* the classifier calls completed before the present one
    _TOKEN_META_CACHE,          \* runtime's token-metadata cache, as entries
    _TOKEN_META_CACHE_LOADED,   \* whether the cache file has been read
    cache_file, \* token_meta_cache.json: its content and whether it can be written
    cache_log,  \* the calls made on the cache so far, with what they answered
    _SAVE_TIMER,    \* app's reference to the save timer: 0 for None, else its number
    timers,     \* the threading.Timer objects created so far, each with its state
    saves,      \* how often save_token_meta_cache has run
    threads,    \* the classifier calls running in threads: arguments, position, locals
    disk_at_start   \* token_meta_cache.json as it was when the threads started

vars == <<tx, network, provider, result, pc, networks, explorer, JOBS, worker,
          all_transactions_local, response, calls, _TOKEN_META_CACHE,
          _TOKEN_META_CACHE_LOADED, cache_file, cache_log, _SAVE_TIMER, timers,
          saves, threads, disk_at_start>>

\* the variables of the token-metadata cache
cacheVars == <<_TOKEN_META_CACHE, _TOKEN_META_CACHE_LOADED, cache_file, cache_log>>

\* the variables of the debounced save
saveVars == <<_SAVE_TIMER, timers, saves>>

\* the variables of the classifier calls running in threads
threadVars == <<threads, disk_at_start>>

----------------------------------------------------------------------------
(* Python values *)

Absent == [k |-> "absent"]              \* key not in the mapping
PyNone == [k |-> "None"]
PyStr(s) == [k |-> "str", s |-> s]
PyInt(n) == [k |-> "int", n |-> n]
PyList(items) == [k |-> "list", items |-> items]

\* dict.get(key): None when the key is missing
Get(d, key) == IF d[key] = Absent THEN PyNone ELSE d[key]

\* dict.get(key, default)
GetDefault(d, key, default) == IF d[key] = Absent THEN default ELSE d[key]

\* bool(v)
Truthy(v) ==
    CASE v.k = "None" -> FALSE
      [] v.k = "str"  -> v.s # ""
      [] v.k = "int"  -> v.n # 0
      [] v.k = "dict" -> v.name # Absent \/ v.symbol # Absent
      [] OTHER        -> FALSE

\* v or default
OrElse(v, default) == IF Truthy(v) THEN v ELSE default

----------------------------------------------------------------------------
(* str methods *)

UpperCaseLetters == "ABCDEFGHIJKLMNOPQRSTUVWXYZ"
LowerCaseLetters == "abcdefghijklmnopqrstuvwxyz"

CharAt(s, i) == SubSeq(s, i, i)

IndexIn(c, alphabet) ==
    IF \E i \in 1..Len(alphabet) : CharAt(alphabet, i) = c
    THEN CHOOSE i \in 1..Len(alphabet) : CharAt(alphabet, i) = c
    ELSE 0

\* the letters' case maps, as tables
UpperToLower ==
    [c \in {CharAt(UpperCaseLetters, i) : i \in 1..26} |->
        CharAt(LowerCaseLetters, IndexIn(c, UpperCaseLetters))]

LowerToUpper ==
    [c \in {CharAt(LowerCaseLetters, i) : i \in 1..26} |->
        CharAt(UpperCaseLetters, IndexIn(c, LowerCaseLetters))]

LowerChar(c) == IF c \in DOMAIN UpperToLower THEN UpperToLower[c] ELSE c

UpperChar(c) == IF c \in DOMAIN LowerToUpper THEN LowerToUpper[c] ELSE c

RECURSIVE Lower(_)
\* str.lower()
Lower(s) == IF s = "" THEN "" ELSE LowerChar(Head(s)) \o Lower(Tail(s))

RECURSIVE Upper(_)
\* str.upper()
Upper(s) == IF s = "" THEN "" ELSE UpperChar(Head(s)) \o Upper(Tail(s))

\* p in s  (substring test)
Contains(p, s) ==
    \E i \in 0..(Len(s) - Len(p)) : SubSeq(s, i + 1, i + Len(p)) = p

\* s.split('(')[0]
BeforeParen(s) ==
    IF \E i \in 1..Len(s) : CharAt(s, i) = "("
    THEN LET i == CHOOSE j \in 1..Len(s) :
                    /\ CharAt(s, j) = "("
                    /\ \A m \in 1..(j - 1) : CharAt(s, m) # "("
         IN  SubSeq(s, 1, i - 1)
    ELSE s

IsSpace(c) == c \in {" ", "\t", "\n", "\r"}

RECURSIVE LStrip(_)
LStrip(s) == IF s # "" /\ IsSpace(Head(s)) THEN LStrip(Tail(s)) ELSE s

RECURSIVE RStrip(_)
RStrip(s) ==
    IF s # "" /\ IsSpace(CharAt(s, Len(s)))
    THEN RStrip(SubSeq(s, 1, Len(s) - 1))
    ELSE s

\* str.strip()
Strip(s) == RStrip(LStrip(s))

\* s[:n]
Prefix(s, n) == IF Len(s) <= n THEN s ELSE SubSeq(s, 1, n)

DecimalDigits == "0123456789"

IsDecimal(s) ==
    /\ s # ""
    /\ \A i \in 1..Len(s) : IndexIn(CharAt(s, i), DecimalDigits) # 0

RECURSIVE DecimalValue(_)
DecimalValue(s) ==
    IF s = "" THEN 0
    ELSE 10 * DecimalValue(SubSeq(s, 1, Len(s) - 1))
         + (IndexIn(CharAt(s, Len(s)), DecimalDigits) - 1)

\* int(v) for the values a transaction field can hold: an int is returned
\* as is, a string is parsed as (optionally blank-padded) decimal digits and
\* anything else raises ValueError/TypeError
IntRaises(v) ==
    CASE v.k = "int" -> FALSE
      [] v.k = "str" -> ~IsDecimal(Strip(v.s))
      [] OTHER       -> TRUE

IntValue(v) == IF v.k = "int" THEN v.n ELSE DecimalValue(Strip(v.s))

\* sequence helpers for the catalog's ordered tables
Range(seq) == {seq[i] : i \in 1..Len(seq)}

\* [a.lower() for a in addrs]
LowerAll(addrs) == [i \in 1..Len(addrs) |-> Lower(addrs[i])]

\* d.get(key, default) on a table of [key, value] pairs
Lookup(table, key, default) ==
    IF \E i \in 1..Len(table) : table[i].key = key
    THEN table[CHOOSE i \in 1..Len(table) : table[i].key = key].value
    ELSE default

\* fault variant of FirstAction: the scan without its break, so that the
\* last action carrying the selector wins
LastAction(methods, sig) ==
    IF \E i \in 1..Len(methods) : methods[i].method = sig
    THEN methods[CHOOSE i \in 1..Len(methods) :
                    /\ methods[i].method = sig
                    /\ \A j \in (i + 1)..Len(methods) : methods[j].method # sig].action
    ELSE ""

\* first action of a methods map whose selector equals sig, "" when none:
\* the for/if/break scan over dict.items()
FirstAction(methods, sig) ==
    IF \E i \in 1..Len(methods) : methods[i].method = sig
    THEN methods[CHOOSE i \in 1..Len(methods) :
                    /\ methods[i].method = sig
                    /\ \A j \in 1..(i - 1) : methods[j].method # sig].action
    ELSE ""

----------------------------------------------------------------------------
(* Rule catalog: defi_config.py *)

AAVE_V3_CONFIG ==
  [
    arbitrum |-> [pool_addresses |-> PyList(<< "0x794a61358D6845594F94dc1DB02A252b5b4814aD",
            "0x69FA688f1Dc47d4B5d8029D5a35FB7a548310654",
            "0x6Ae43d3271ff6888e7Fc43Fd7321a503ff738951",
            "0x929EC64c34a17401F460460D4B9390518E5B473e" >>),
        methods |-> <<[action |-> "supply", method |-> "0x617ba037"],
                   [action |-> "withdraw", method |-> "0x693ec85e"],
                   [action |-> "borrow", method |-> "0xa415bcad"],
                   [action |-> "repay", method |-> "0x573ade81"],
                   [action |-> "liquidation_call", method |-> "0x80e670ae"],
                   [action |-> "flashloan", method |-> "0xab9c4b5d"],
                   [action |-> "setUserUseReserveAsCollateral", method |-> "0x693ec85e"]>>],
    flare |-> [pool_addresses |-> PyList(<< "0x2E4C9Ab8518A443a2EbB4371C24a8246B30b3446" >>),
        methods |-> <<[action |-> "supply", method |-> "0x617ba037"],
                   [action |-> "withdraw", method |-> "0x693ec85e"],
                   [action |-> "borrow", method |-> "0xa415bcad"],
                   [action |-> "repay", method |-> "0x573ade81"]>>]
  ]

OPENOCEAN_CONFIG ==
  [
    arbitrum |-> [router_addresses |-> PyList(<< "0x6352a56caadc4f1e25cd6c21570aae1b9d1bc644",
            "0x6E2B76966cbD9cF4cC2Fa0D76d24d5241E0ABC2F" >>),
        methods |-> <<[action |-> "swap", method |-> "0x12aa3caf"],
                   [action |-> "swap_eth", method |-> "0x7ff36ab5"],
                   [action |-> "swap_tokens_for_eth", method |-> "0x18cbafe5"],
                   [action |-> "swap_eth_for_tokens", method |-> "0x7ff36ab5"]>>],
    flare |-> [router_addresses |-> PyList(<< "0x0000000000000000000000000000000000000000" >>),
        methods |-> <<[action |-> "swap", method |-> "0x12aa3caf"],
                   [action |-> "swap_eth", method |-> "0x7ff36ab5"]>>]
  ]

UNISWAP_V3_CONFIG ==
  [
    arbitrum |-> [router_addresses |-> PyList(<< "0xE592427A0AEce92De3Edee1F18E0157C05861564",
            "0x68b3465833fb72A70ecDF485E0e4C7bD8665Fc45",
            "0x1F98431c8aD98523631AE4a59f267346ea31F984" >>),
        methods |-> <<[action |-> "exact_input_single", method |-> "0x414bf389"],
                   [action |-> "exact_input", method |-> "0xc04b8d59"],
                   [action |-> "exact_output_single", method |-> "0xdb3e2198"],
                   [action |-> "exact_output", method |-> "0xf28c0498"],
                   [action |-> "mint", method |-> "0x88316456"],
                   [action |-> "burn", method |-> "0xa34123a7"],
                   [action |-> "collect", method |-> "0xfc6f7865"],
                   [action |-> "swap", method |-> "0x128acb08"]>>],
    flare |-> [router_addresses |-> PyList(<< "0x0000000000000000000000000000000000000000" >>),
        methods |-> <<[action |-> "exact_input_single", method |-> "0x414bf389"],
                   [action |-> "exact_input", method |-> "0xc04b8d59"],
                   [action |-> "mint", method |-> "0x88316456"],
                   [action |-> "burn", method |-> "0xa34123a7"],
                   [action |-> "collect", method |-> "0xfc6f7865"]>>]
  ]

SUSHISWAP_CONFIG ==
  [
    arbitrum |-> [router_addresses |-> PyList(<< "0x1b02dA8Cb0d097eB8D57A175b88c7D8b47997506",
            "0xE592427A0AEce92De3Edee1F18E0157C05861564" >>),
        methods |-> <<[action |-> "swap_exact_tokens_for_tokens", method |-> "0x38ed1739"],
                   [action |-> "swap_exact_eth_for_tokens", method |-> "0x7ff36ab5"],
                   [action |-> "swap_exact_tokens_for_eth", method |-> "0x18cbafe5"],
                   [action |-> "add_liquidity", method |-> "0xe8e33700"],
                   [action |-> "remove_liquidity", method |-> "0xbaa2abde"]>>],
    flare |-> [router_addresses |-> PyList(<< "0x0000000000000000000000000000000000000000" >>),
        methods |-> <<[action |-> "swap_exact_tokens_for_tokens", method |-> "0x38ed1739"],
                   [action |-> "add_liquidity", method |-> "0xe8e33700"],
                   [action |-> "remove_liquidity", method |-> "0xbaa2abde"]>>]
  ]

SPARKDEX_V3_CONFIG ==
  [
    arbitrum |-> [router_address |-> PyStr("0x0Fc73040b26E9bC8514fA028D998E73A0E8584C8"),
        factory_address |-> PyStr("0x0227628f3F023bb0B980b67D528571c95c6DaC1c"),
        methods |-> <<[action |-> "exact_input_single", method |-> "0x414bf389"],
                   [action |-> "exact_input", method |-> "0xc04b8d59"],
                   [action |-> "mint", method |-> "0x88316456"],
                   [action |-> "burn", method |-> "0xa34123a7"],
                   [action |-> "collect", method |-> "0xfc6f7865"]>>],
    flare |-> [router_address |-> PyStr("0x96E5ac8b2Eab7A4C33e0b5AA2E7E87F32117048a"),
        factory_address |-> PyStr("0x48C8613755D0b1aEd67B1Fd8fFD82BB821562E51"),
        methods |-> <<[action |-> "exact_input_single", method |-> "0x414bf389"],
                   [action |-> "exact_input", method |-> "0xc04b8d59"],
                   [action |-> "mint", method |-> "0x88316456"],
                   [action |-> "burn", method |-> "0xa34123a7"],
                   [action |-> "collect", method |-> "0xfc6f7865"]>>]
  ]

KINETIC_MARKET_CONFIG ==
  [
    arbitrum |-> [lending_pool |-> PyStr("0x2f123cF3F37CE3328CC9B5b8415f9EC5109b45e7"),
        methods |-> <<[action |-> "deposit", method |-> "0x47e7ef24"],
                   [action |-> "withdraw", method |-> "0x693ec85e"],
                   [action |-> "borrow", method |-> "0xa415bcad"],
                   [action |-> "repay", method |-> "0x573ade81"]>>],
    flare |-> [lending_pool |-> PyStr("0x70e36f6BF80a52b3B46b3aF8e106CC0ed743E8e4"),
        methods |-> <<[action |-> "deposit", method |-> "0x47e7ef24"],
                   [action |-> "withdraw", method |-> "0x693ec85e"],
                   [action |-> "borrow", method |-> "0xa415bcad"],
                   [action |-> "repay", method |-> "0x573ade81"]>>]
  ]

FLARE_STAKING_CONFIG ==
  [wflr_contract |-> "0x1D80c49BbBCd1C0911346656B529DF9E5c2F783d",
   ftso_manager |-> "0x1000000000000000000000000000000000000003",
   methods |-> <<[action |-> "delegate", method |-> "0x5c19a95c"],
                [action |-> "undelegate", method |-> "0x5c19a95c"],
                [action |-> "claim_rewards", method |-> "0x3d18b912"],
                [action |-> "wrap", method |-> "0xd0e30db0"],
                [action |-> "unwrap", method |-> "0x2e1a7d4d"]>>]

FLARE_DEFI_PROTOCOLS ==
  <<
    [protocol |-> "aave_v3", name |-> "Aave V3",
     addresses |-> << "0x2E4C9Ab8518A443a2EbB4371C24a8246B30b3446" >>,
     methods |-> <<[action |-> "supply", method |-> "0x617ba037"],
                  [action |-> "withdraw", method |-> "0x693ec85e"],
                  [action |-> "borrow", method |-> "0xa415bcad"],
                  [action |-> "repay", method |-> "0x573ade81"],
                  [action |-> "flashloan", method |-> "0xab9c4b5d"]>>],
    [protocol |-> "openocean", name |-> "OpenOcean",
     addresses |-> << "0x6352a56caadc4f1e25cd6c21570aae1b9d1bc644" >>,
     methods |-> <<[action |-> "swap", method |-> "0x12aa3caf"],
                  [action |-> "swap_eth", method |-> "0x7ff36ab5"],
                  [action |-> "swap_tokens_for_eth", method |-> "0x18cbafe5"],
                  [action |-> "swap_eth_for_tokens", method |-> "0x7ff36ab5"]>>],
    [protocol |-> "sparkdex_v3", name |-> "SparkDEX V3",
     addresses |-> << "0x96E5ac8b2Eab7A4C33e0b5AA2E7E87F32117048a",
                    "0x48C8613755D0b1aEd67B1Fd8fFD82BB821562E51" >>,
     methods |-> <<[action |-> "exact_input_single", method |-> "0x414bf389"],
                  [action |-> "exact_input", method |-> "0xc04b8d59"],
                  [action |-> "exact_output_single", method |-> "0xdb3e2198"],
                  [action |-> "exact_output", method |-> "0xf28c0498"],
                  [action |-> "mint", method |-> "0x88316456"],
                  [action |-> "burn", method |-> "0xa34123a7"],
                  [action |-> "collect", method |-> "0xfc6f7865"],
                  [action |-> "swap", method |-> "0x128acb08"]>>],
    [protocol |-> "kinetic_market", name |-> "Kinetic Market",
     addresses |-> << "0x70e36f6BF80a52b3B46b3aF8e106CC0ed743E8e4" >>,
     methods |-> <<[action |-> "deposit", method |-> "0x47e7ef24"],
                  [action |-> "withdraw", method |-> "0x693ec85e"],
                  [action |-> "borrow", method |-> "0xa415bcad"],
                  [action |-> "repay", method |-> "0x573ade81"]>>],
    [protocol |-> "flare_network", name |-> "Flare Network",
     addresses |-> << "0x1D80c49BbBCd1C0911346656B529DF9E5c2F783d",
                    "0x1000000000000000000000000000000000000003" >>,
     methods |-> <<[action |-> "delegate", method |-> "0x5c19a95c"],
                  [action |-> "undelegate", method |-> "0x5c19a95c"],
                  [action |-> "claim_rewards", method |-> "0x3d18b912"],
                  [action |-> "wrap", method |-> "0xd0e30db0"],
                  [action |-> "unwrap", method |-> "0x2e1a7d4d"]>>],
    [protocol |-> "flare_swap", name |-> "FlareSwap",
     addresses |-> << "0x1234567890123456789012345678901234567890",
                    "0xabcdef1234567890abcdef1234567890abcdef12" >>,
     methods |-> <<[action |-> "swap_exact_tokens_for_tokens", method |-> "0x38ed1739"],
                  [action |-> "swap_exact_eth_for_tokens", method |-> "0x7ff36ab5"],
                  [action |-> "add_liquidity", method |-> "0xe8e33700"],
                  [action |-> "remove_liquidity", method |-> "0xbaa2abde"]>>],
    [protocol |-> "flare_lending", name |-> "Flare Lending",
     addresses |-> << "0x9876543210987654321098765432109876543210" >>,
     methods |-> <<[action |-> "supply", method |-> "0x617ba037"],
                  [action |-> "withdraw", method |-> "0x693ec85e"],
                  [action |-> "borrow", method |-> "0xa415bcad"],
                  [action |-> "repay", method |-> "0x573ade81"]>>],
    [protocol |-> "flare_dex", name |-> "Flare DEX",
     addresses |-> << "0x1111111111111111111111111111111111111111" >>,
     methods |-> <<[action |-> "swap", method |-> "0x12aa3caf"],
                  [action |-> "trade", method |-> "0x128acb08"]>>]
  >>

ARBITRUM_DEFI_PROTOCOLS ==
  <<
    [protocol |-> "aave_v3", name |-> "Aave V3",
     addresses |-> << "0x794a61358D6845594F94dc1DB02A252b5b4814aD",
                    "0x69FA688f1Dc47d4B5d8029D5a35FB7a548310654",
                    "0x6Ae43d3271ff6888e7Fc43Fd7321a503ff738951",
                    "0x929EC64c34a17401F460460D4B9390518E5B473e" >>,
     methods |-> <<[action |-> "supply", method |-> "0x617ba037"],
                  [action |-> "withdraw", method |-> "0x693ec85e"],
                  [action |-> "borrow", method |-> "0xa415bcad"],
                  [action |-> "repay", method |-> "0x573ade81"],
                  [action |-> "liquidation_call", method |-> "0x80e670ae"],
                  [action |-> "flashloan", method |-> "0xab9c4b5d"]>>],
    [protocol |-> "openocean", name |-> "OpenOcean",
     addresses |-> << "0x6352a56caadc4f1e25cd6c21570aae1b9d1bc644",
                    "0x6E2B76966cbD9cF4cC2Fa0D76d24d5241E0ABC2F" >>,
     methods |-> <<[action |-> "swap", method |-> "0x12aa3caf"],
                  [action |-> "swap_eth", method |-> "0x7ff36ab5"],
                  [action |-> "swap_tokens_for_eth", method |-> "0x18cbafe5"],
                  [action |-> "swap_eth_for_tokens", method |-> "0x7ff36ab5"]>>],
    [protocol |-> "sparkdex_v3", name |-> "SparkDEX V3",
     addresses |-> << "0x0Fc73040b26E9bC8514fA028D998E73A0E8584C8",
                    "0x0227628f3F023bb0B980b67D528571c95c6DaC1c" >>,
     methods |-> <<[action |-> "exact_input_single", method |-> "0x414bf389"],
                  [action |-> "exact_input", method |-> "0xc04b8d59"],
                  [action |-> "exact_output_single", method |-> "0xdb3e2198"],
                  [action |-> "exact_output", method |-> "0xf28c0498"],
                  [action |-> "mint", method |-> "0x88316456"],
                  [action |-> "burn", method |-> "0xa34123a7"],
                  [action |-> "collect", method |-> "0xfc6f7865"],
                  [action |-> "swap", method |-> "0x128acb08"]>>],
    [protocol |-> "kinetic_market", name |-> "Kinetic Market",
     addresses |-> << "0x2f123cF3F37CE3328CC9B5b8415f9EC5109b45e7" >>,
     methods |-> <<[action |-> "deposit", method |-> "0x47e7ef24"],
                  [action |-> "withdraw", method |-> "0x693ec85e"],
                  [action |-> "borrow", method |-> "0xa415bcad"],
                  [action |-> "repay", method |-> "0x573ade81"]>>],
    [protocol |-> "curve", name |-> "Curve Finance",
     addresses |-> << "0x7D2768dE32b0b80b7a3454c06BdAc94A69DDc4A9",
                    "0x8301AE4FC9C624DAD84C6F23A2F5C3B8F0A4B7C" >>,
     methods |-> <<[action |-> "exchange", method |-> "0x3df02124"],
                  [action |-> "add_liquidity", method |-> "0x4515cef3"],
                  [action |-> "remove_liquidity", method |-> "0x1a4d01d2"]>>],
    [protocol |-> "balancer", name |-> "Balancer",
     addresses |-> << "0xBA12222222228d8Ba445958a75a0704d566BF2C8" >>,
     methods |-> <<[action |-> "swap", method |-> "0x52bbbe29"],
                  [action |-> "join_pool", method |-> "0xb95db5bb"],
                  [action |-> "exit_pool", method |-> "0x8bdb3913"]>>],
    [protocol |-> "compound", name |-> "Compound",
     addresses |-> << "0x3d9819210A31b4961b30EF54bE2aeD79B9c9Cd3B" >>,
     methods |-> <<[action |-> "mint", method |-> "0xa0712d68"],
                  [action |-> "redeem", method |-> "0xdb006a75"],
                  [action |-> "borrow", method |-> "0xc5ebeaec"],
                  [action |-> "repay_borrow", method |-> "0x0e752702"]>>]
  >>

CURVE_LP_PATTERNS ==
  [symbols |-> << "3CRV", "3CRV-f", "CRV", "CRVLP", "CURVE", "CRV:", "sCRV", "yvBOOST", "gusd3CRV" >>,
   names |-> << "curve", "lp token", "liquidity pool", "curve.fi", "curve lp" >>]

ANGLE_PATTERNS ==
  [symbols |-> << "AGEUR", "agEUR", "ANGLE", "ANGLE:agEUR" >>,
   names |-> << "angle", "angle protocol", "agEUR", "angle stable" >>]

LIQUITY_PATTERNS ==
  [symbols |-> << "LUSD", "LQTY", "LQTY:" >>,
   names |-> << "liquity", "lusd", "lqty", "liquity protocol" >>]

ERC20_METHODS ==
  << [key |-> "transfer", value |-> "0xa9059cbb"],
     [key |-> "approve", value |-> "0x095ea7b3"],
     [key |-> "transfer_from", value |-> "0x23b872dd"] >>

TRANSACTION_TYPES ==
  << [key |-> "supply", value |-> "Deposit"],
     [key |-> "withdraw", value |-> "Withdrawal"],
     [key |-> "borrow", value |-> "Borrowing"],
     [key |-> "repay", value |-> "Borrowing"],
     [key |-> "swap", value |-> "Trade"],
     [key |-> "trade", value |-> "Trade"],
     [key |-> "exact_input_single", value |-> "Trade"],
     [key |-> "exact_input", value |-> "Trade"],
     [key |-> "exact_output_single", value |-> "Trade"],
     [key |-> "exact_output", value |-> "Trade"],
     [key |-> "swap_exact_tokens_for_tokens", value |-> "Trade"],
     [key |-> "swap_exact_eth_for_tokens", value |-> "Trade"],
     [key |-> "swap_exact_tokens_for_eth", value |-> "Trade"],
     [key |-> "add_liquidity", value |-> "Deposit"],
     [key |-> "remove_liquidity", value |-> "Withdrawal"],
     [key |-> "mint", value |-> "Deposit"],
     [key |-> "burn", value |-> "Withdrawal"],
     [key |-> "collect", value |-> "Withdrawal"],
     [key |-> "delegate", value |-> "Staking"],
     [key |-> "undelegate", value |-> "Staking"],
     [key |-> "claim_rewards", value |-> "Staking"],
     [key |-> "wrap", value |-> "Deposit"],
     [key |-> "unwrap", value |-> "Withdrawal"],
     [key |-> "exchange", value |-> "Trade"],
     [key |-> "join_pool", value |-> "Deposit"],
     [key |-> "exit_pool", value |-> "Withdrawal"],
     [key |-> "redeem", value |-> "Withdrawal"],
     [key |-> "repay_borrow", value |-> "Borrowing"],
     [key |-> "interaction", value |-> "Trade"] >>

EXCHANGE_NAMES ==
  << [key |-> "aave_v3", value |-> "Aave V3"],
     [key |-> "openocean", value |-> "OpenOcean"],
     [key |-> "uniswap_v3", value |-> "Uniswap V3"],
     [key |-> "sushiswap", value |-> "SushiSwap"],
     [key |-> "sparkdex_v3", value |-> "SparkDEX V3"],
     [key |-> "kinetic_market", value |-> "Kinetic Market"],
     [key |-> "flare_network", value |-> "Flare Network"],
     [key |-> "flare_staking", value |-> "Flare Staking"],
     [key |-> "flare_swap", value |-> "FlareSwap"],
     [key |-> "flare_lending", value |-> "Flare Lending"],
     [key |-> "flare_dex", value |-> "Flare DEX"],
     [key |-> "curve", value |-> "Curve Finance"],
     [key |-> "balancer", value |-> "Balancer"],
     [key |-> "compound", value |-> "Compound"] >>
----------------------------------------------------------------------------
(* Classification values *)

NotCalled == [k |-> "not_called"]
Raised == [k |-> "raised"]              \* the call propagated an exception
Returned(v) == [k |-> "returned", v |-> v]

\* fault variant of ZeroResult: one mapping shared by all calls, which still
\* holds what the previous call wrote into it
LeftoverResult ==
    IF calls # <<>> /\ calls[Len(calls)].result.k = "returned"
    THEN calls[Len(calls)].result.v
    ELSE [is_defi |-> FALSE, protocol |-> PyNone, action |-> PyNone,
          type |-> PyNone, group |-> PyNone, exchange |-> PyNone]

\* the `result` mapping analyze_defi_interaction starts from
ZeroResult ==
    [is_defi |-> FALSE, protocol |-> PyNone, action |-> PyNone,
     type |-> PyNone, group |-> PyNone, exchange |-> PyNone]

\* a matching branch that leaves `exchange` as it was
FilledWithoutExchange(protocol, action, type, group, exchange) ==
    [is_defi |-> TRUE, protocol |-> PyStr(protocol), action |-> PyStr(action),
     type |-> PyStr(type), group |-> PyStr(group), exchange |-> PyNone]

\* `result` after a branch has filled it in; exchange is a Python value
\* because dict.get without default may give None
Filled(protocol, action, type, group, exchange) ==
    [is_defi |-> TRUE, protocol |-> PyStr(protocol), action |-> PyStr(action),
     type |-> PyStr(type), group |-> PyStr(group), exchange |-> exchange]

\* TRANSACTION_TYPES.get(action, default)
TypeOf(action, default) == Lookup(TRANSACTION_TYPES, action, default)

IsLetter(c) == c \in DOMAIN UpperToLower \/ c \in DOMAIN LowerToUpper

RECURSIVE TitleFrom(_, _)
TitleFrom(s, prevIsLetter) ==
    IF s = "" THEN ""
    ELSE LET c == Head(s)
         IN  (IF prevIsLetter THEN LowerChar(c) ELSE UpperChar(c))
             \o TitleFrom(Tail(s), IsLetter(c))

\* str.title()
Title(s) == TitleFrom(s, FALSE)

\* EXCHANGE_NAMES.get(key, key.title())
ExchangeName(key) == PyStr(Lookup(EXCHANGE_NAMES, key, Title(key)))

\* EXCHANGE_NAMES.get(key): None when the key is missing
ExchangeNameOrNone(key) ==
    IF \E i \in 1..Len(EXCHANGE_NAMES) : EXCHANGE_NAMES[i].key = key
    THEN PyStr(Lookup(EXCHANGE_NAMES, key, ""))
    ELSE PyNone

ZERO_ADDRESS == "0x0000000000000000000000000000000000000000"

\* [a for a in addresses if a and a != '0x000...0']
NonPlaceholder(addresses) ==
    SelectSeq(addresses, LAMBDA a : a # "" /\ a # ZERO_ADDRESS)

\* any(to_address == a.lower() for a in addrs), given the a.lower() values
AnyAddress(to_addr, lowered) ==
    \E i \in 1..Len(lowered) : to_addr = lowered[i]

\* index of the first TRUE of a sequence of tests, 0 if none: where a
\* for loop over an ordered table stops
FirstIndex(tests) ==
    IF \E i \in 1..Len(tests) : tests[i]
    THEN CHOOSE i \in 1..Len(tests) :
            tests[i] /\ \A j \in 1..(i - 1) : ~tests[j]
    ELSE 0

----------------------------------------------------------------------------
(* analyze_defi_interaction, app_new/services/defi.py *)

\* fault variant of to_raw: tx.get('to', ''), which keeps a None
to_raw_without_or(t) == GetDefault(t, "to", PyStr(""))

\* to_address = (tx.get('to') or '').lower(): .lower() raises on a non-str
to_raw(t) == OrElse(Get(t, "to"), PyStr(""))
to_address_raises(t) == to_raw(t).k # "str"
to_address(t) == Lower(to_raw(t).s)

\* input_data = tx.get('input') or ''; len(input_data) raises on a non-str
input_raw(t) == OrElse(Get(t, "input"), PyStr(""))
input_data_raises(t) == input_raw(t).k # "str"
input_data(t) == input_raw(t).s

\* fault variant of method_signature: the length test made strict
method_signature_strict(input) == IF Len(input) > 10 THEN Prefix(input, 10) ELSE ""

\* input_data[:10] if len(input_data) >= 10 else ''
method_signature(input) == IF Len(input) >= 10 THEN Prefix(input, 10) ELSE ""

\* the list of the three plain ERC-20 selectors of the early return
ERC20Passthrough ==
    {Lookup(ERC20_METHODS, "transfer", ""), Lookup(ERC20_METHODS, "approve", ""),
     Lookup(ERC20_METHODS, "transfer_from", "")}

\* ERC20_METHODS.values()
ERC20Values == {ERC20_METHODS[i].value : i \in 1..Len(ERC20_METHODS)}

\* fn_name: text of functionName before '(' stripped, '' unless a non-empty str
fn_name(t) ==
    LET fn_name_raw == OrElse(Get(t, "functionName"), PyStr(""))
    IN  IF fn_name_raw.k = "str" /\ fn_name_raw.s # ""
        THEN Strip(BeforeParen(fn_name_raw.s))
        ELSE ""

\* _is_contract(addr, net): get_address_info(...).get('is_contract', False)
\* or False; runtime.is_contract only when get_address_info raises
_is_contract(prov) ==
    IF prov.address_info # "raise"
    THEN prov.address_info = "is_contract"
    ELSE IF prov.is_contract # "raise" THEN prov.is_contract = "true" ELSE FALSE

EmptyMeta == [k |-> "dict", name |-> PyStr(""), symbol |-> PyStr("")]

\* _get_token_meta(addr, net): the cached getter's answer, empty on a raise
_get_token_meta(prov) ==
    IF prov.token_meta.k = "raise" THEN EmptyMeta ELSE prov.token_meta

\* FLARE_DEFI_PROTOCOLS loop (network == 'flare'): <<>> when no entry lists
\* to_address, else <<result>> of the first entry that does
FlareGroup(protocol_name) ==
    IF protocol_name \in {"sparkdex_v3", "openocean", "flare_swap", "flare_dex"}
    THEN "DEX Trading"
    ELSE IF protocol_name \in {"aave_v3", "kinetic_market", "flare_lending"}
    THEN "Lending"
    ELSE IF protocol_name \in {"flare_network"}
    THEN "Stacking (passiv)"
    ELSE "Other"

\* per entry, the a.lower() of its addresses that are not placeholders (the
\* catalog is static, so the lower-casing is tabulated once)
FlareListedAddresses ==
    [i \in 1..Len(FLARE_DEFI_PROTOCOLS) |->
        LowerAll(NonPlaceholder(FLARE_DEFI_PROTOCOLS[i].addresses))]

FlareProtocolMatch(to_addr, sig, fn) ==
    LET Listed(j) == AnyAddress(to_addr, FlareListedAddresses[j])
        i == FirstIndex([j \in 1..Len(FLARE_DEFI_PROTOCOLS) |-> Listed(j)])
    IN  IF i = 0 THEN <<>>
        ELSE LET protocol_info == FLARE_DEFI_PROTOCOLS[i]
                 protocol_name == protocol_info.protocol
                 grp == FlareGroup(protocol_name)
                 action == FirstAction(protocol_info.methods, sig)
             IN  IF fn # ""
                 THEN << Filled(protocol_name, fn, TypeOf(fn, "Trade"), grp,
                                PyStr(protocol_info.name)) >>
                 ELSE IF action # ""
                 THEN << Filled(protocol_name, action, TypeOf(action, "Trade"),
                                grp, PyStr(protocol_info.name)) >>
                 ELSE << Filled(protocol_name, "interaction", "Trade", grp,
                                PyStr(protocol_info.name)) >>

\* staking shortcut (network == 'flare'), after the FLARE_DEFI_PROTOCOLS loop
StakingAddresses ==
    {Lower(FLARE_STAKING_CONFIG.wflr_contract), Lower(FLARE_STAKING_CONFIG.ftso_manager)}

FlareStakingMatch(to_addr, sig, fn) ==
    LET flare_cfg == FLARE_STAKING_CONFIG
        action == FirstAction(flare_cfg.methods, sig)
    IN  IF to_addr \in StakingAddresses
        THEN IF fn # ""
             THEN << Filled("flare_staking", fn, TypeOf(fn, "Staking"),
                            "Stacking (passiv)", ExchangeNameOrNone("flare_staking")) >>
             ELSE IF action # ""
             THEN << Filled("flare_staking", action, TypeOf(action, "Staking"),
                            "Stacking (passiv)", ExchangeNameOrNone("flare_staking")) >>
             ELSE << Filled("flare_staking", "stake", "Staking",
                            "Stacking (passiv)", ExchangeNameOrNone("flare_staking")) >>
        ELSE <<>>

\* protocols_to_check with the SushiSwap entry moved before the Uniswap V3 entry
protocols_to_check_sushiswap_first ==
    << [protocol_name |-> "aave_v3", protocol_config |-> AAVE_V3_CONFIG, default_group |-> "Lending"],
       [protocol_name |-> "openocean", protocol_config |-> OPENOCEAN_CONFIG, default_group |-> "DEX Trading"],
       [protocol_name |-> "sparkdex_v3", protocol_config |-> SPARKDEX_V3_CONFIG, default_group |-> "DEX Trading"],
       [protocol_name |-> "sushiswap", protocol_config |-> SUSHISWAP_CONFIG, default_group |-> "DEX Trading"],
       [protocol_name |-> "uniswap_v3", protocol_config |-> UNISWAP_V3_CONFIG, default_group |-> "DEX Trading"],
       [protocol_name |-> "kinetic_market", protocol_config |-> KINETIC_MARKET_CONFIG, default_group |-> "Lending"] >>

\* protocols_to_check of the arbitrum branch, in its declared order
protocols_to_check ==
    << [protocol_name |-> "aave_v3", protocol_config |-> AAVE_V3_CONFIG, default_group |-> "Lending"],
       [protocol_name |-> "openocean", protocol_config |-> OPENOCEAN_CONFIG, default_group |-> "DEX Trading"],
       [protocol_name |-> "sparkdex_v3", protocol_config |-> SPARKDEX_V3_CONFIG, default_group |-> "DEX Trading"],
       [protocol_name |-> "uniswap_v3", protocol_config |-> UNISWAP_V3_CONFIG, default_group |-> "DEX Trading"],
       [protocol_name |-> "sushiswap", protocol_config |-> SUSHISWAP_CONFIG, default_group |-> "DEX Trading"],
       [protocol_name |-> "kinetic_market", protocol_config |-> KINETIC_MARKET_CONFIG, default_group |-> "Lending"] >>

AddressKeys ==
    << "pool_addresses", "router_addresses", "pool_address", "router_address", "lending_pool" >>

RECURSIVE CollectAddresses(_, _)
\* addresses_to_check: lists are extended, non-empty strings appended, in the
\* order of AddressKeys; other keys of the config are not looked at
CollectAddresses(cfg, keys) ==
    IF keys = <<>> THEN <<>>
    ELSE LET key == Head(keys)
             here == IF key \notin DOMAIN cfg THEN <<>>
                     ELSE IF cfg[key].k = "list" THEN cfg[key].items
                     ELSE IF cfg[key].k = "str" /\ cfg[key].s # "" THEN << cfg[key].s >>
                     ELSE <<>>
         IN  here \o CollectAddresses(cfg, Tail(keys))

addresses_to_check(cfg) == CollectAddresses(cfg, AddressKeys)

\* group after the functionName branch of an arbitrum address match
GroupForFunctionName(protocol_name, default_group) ==
    IF protocol_name \in {"uniswap_v3", "sparkdex_v3"} THEN "DEX Liquidity Mining"
    ELSE IF protocol_name \in {"aave_v3", "kinetic_market"} THEN "Lending"
    ELSE IF protocol_name \in {"openocean", "sushiswap"} THEN "DEX Trading"
    ELSE default_group

\* group after the selector branch of an arbitrum address match
GroupForSelector(protocol_name, action, default_group) ==
    IF protocol_name \in {"uniswap_v3", "sparkdex_v3"} /\ action \in {"mint", "burn", "collect"}
    THEN "DEX Liquidity Mining"
    ELSE IF protocol_name \in {"aave_v3", "kinetic_market"} THEN "Lending"
    ELSE IF protocol_name \in {"openocean", "sushiswap"} THEN "DEX Trading"
    ELSE default_group

\* the result an arbitrum rule gives once its address has matched
ArbitrumRuleResult(rule, net, sig, fn) ==
    LET cfg == rule.protocol_config[net]
        name == rule.protocol_name
        action == FirstAction(cfg.methods, sig)
    IN  IF fn # ""
        THEN Filled(name, fn, TypeOf(fn, "Trade"),
                    GroupForFunctionName(name, rule.default_group), ExchangeName(name))
        ELSE IF action # ""
        THEN Filled(name, action, TypeOf(action, "Trade"),
                    GroupForSelector(name, action, rule.default_group), ExchangeName(name))
        ELSE Filled(name, "interaction", "Trade", rule.default_group, ExchangeName(name))

\* per rule and network key, the a.lower() of the rule's addresses that are
\* not placeholders; empty when the config has no entry for the network
RuleListedAddresses ==
    [i \in 1..Len(protocols_to_check) |->
        [net \in {"arbitrum", "flare"} |->
            IF net \in DOMAIN protocols_to_check[i].protocol_config
            THEN LowerAll(NonPlaceholder(
                    addresses_to_check(protocols_to_check[i].protocol_config[net])))
            ELSE <<>>]]

\* protocols_to_check loop (network == 'arbitrum')
ArbitrumProtocolMatch(net, to_addr, sig, fn) ==
    LET Listed(j) == AnyAddress(to_addr, RuleListedAddresses[j][net])
        i == FirstIndex([j \in 1..Len(protocols_to_check) |-> Listed(j)])
    IN  IF i = 0 THEN <<>>
        ELSE << ArbitrumRuleResult(protocols_to_check[i], net, sig, fn) >>

\* method_fallback_map of the arbitrum branch
method_fallback_map ==
    << [key |-> "0x38ed1739", value |-> "openocean"],
       [key |-> "0x7ff36ab5", value |-> "openocean"],
       [key |-> "0x18cbafe5", value |-> "openocean"],
       [key |-> "0x12aa3caf", value |-> "openocean"],
       [key |-> "0x414bf389", value |-> "sparkdex_v3"],
       [key |-> "0xc04b8d59", value |-> "sparkdex_v3"],
       [key |-> "0xdb3e2198", value |-> "sparkdex_v3"],
       [key |-> "0xf28c0498", value |-> "sparkdex_v3"],
       [key |-> "0x88316456", value |-> "sparkdex_v3"],
       [key |-> "0xa34123a7", value |-> "sparkdex_v3"],
       [key |-> "0xfc6f7865", value |-> "sparkdex_v3"],
       [key |-> "0x128acb08", value |-> "sparkdex_v3"],
       [key |-> "0x617ba037", value |-> "aave_v3"],
       [key |-> "0x693ec85e", value |-> "aave_v3"],
       [key |-> "0xa415bcad", value |-> "aave_v3"],
       [key |-> "0x573ade81", value |-> "aave_v3"],
       [key |-> "0x80e670ae", value |-> "aave_v3"],
       [key |-> "0xab9c4b5d", value |-> "aave_v3"],
       [key |-> "0x47e7ef24", value |-> "kinetic_market"],
       [key |-> "0x5c19a95c", value |-> "flare_network"],
       [key |-> "0x3d18b912", value |-> "flare_network"],
       [key |-> "0xd0e30db0", value |-> "flare_network"],
       [key |-> "0x2e1a7d4d", value |-> "flare_network"] >>

FallbackGroup(mapped) ==
    IF mapped \in {"sparkdex_v3", "openocean", "sushiswap", "uniswap_v3"} THEN "DEX Trading"
    ELSE IF mapped \in {"aave_v3", "compound", "kinetic_market"} THEN "Lending"
    ELSE IF mapped \in {"flare_network"} THEN "Stacking (passiv)"
    ELSE "Other"

\* X_CONFIG.get(network_key, {}).get('methods', {})
MethodsOf(config, network_key) ==
    IF network_key \in DOMAIN config THEN config[network_key].methods ELSE <<>>

\* the methods maps re-scanned for the action name, in scan order
FallbackScanOrder(network_key) ==
    << MethodsOf(AAVE_V3_CONFIG, network_key),
       MethodsOf(SPARKDEX_V3_CONFIG, network_key),
       MethodsOf(OPENOCEAN_CONFIG, network_key),
       MethodsOf(KINETIC_MARKET_CONFIG, network_key),
       FLARE_STAKING_CONFIG.methods >>

\* action_name: first hit over the scan order, "" (None) when no map has msig
FallbackAction(msig, network_key) ==
    LET confs == FallbackScanOrder(network_key)
        Has(methods) == FirstAction(methods, msig) # ""
        i == FirstIndex([j \in 1..Len(confs) |-> Has(confs[j])])
    IN  IF i = 0 THEN "" ELSE FirstAction(confs[i], msig)

\* fallback method signature map (network == 'arbitrum', no rule matched)
MethodFallbackMatch(net, input) ==
    IF input # "" /\ Len(input) >= 10
    THEN LET msig == Prefix(input, 10)
             mapped == Lookup(method_fallback_map, msig, "")
             network_key == IF net = "arbitrum" THEN "arbitrum" ELSE "flare"
             action_name == FallbackAction(msig, network_key)
             action == IF action_name # "" THEN action_name ELSE "interaction"
         IN  IF mapped # ""
             THEN << Filled(mapped, action, TypeOf(action, "Trade"),
                            FallbackGroup(mapped), ExchangeName(mapped)) >>
             ELSE <<>>
    ELSE <<>>

SecondaryGroup(protocol_name) ==
    IF protocol_name \in {"sparkdex_v3", "openocean", "curve", "balancer", "sushiswap"}
    THEN "DEX Trading"
    ELSE IF protocol_name \in {"aave_v3", "kinetic_market", "compound"} THEN "Lending"
    ELSE "Other"

\* ARBITRUM_DEFI_PROTOCOLS loop (network == 'arbitrum')
SecondaryListedAddresses ==
    [i \in 1..Len(ARBITRUM_DEFI_PROTOCOLS) |-> LowerAll(ARBITRUM_DEFI_PROTOCOLS[i].addresses)]

SecondaryProtocolMatch(to_addr, sig) ==
    LET Listed(j) == AnyAddress(to_addr, SecondaryListedAddresses[j])
        i == FirstIndex([j \in 1..Len(ARBITRUM_DEFI_PROTOCOLS) |-> Listed(j)])
    IN  IF i = 0 THEN <<>>
        ELSE LET protocol_info == ARBITRUM_DEFI_PROTOCOLS[i]
                 protocol_name == protocol_info.protocol
                 action == FirstAction(protocol_info.methods, sig)
             IN  IF action # ""
                 THEN << Filled(protocol_name, action, TypeOf(action, "Trade"),
                                SecondaryGroup(protocol_name), PyStr(protocol_info.name)) >>
                 ELSE << Filled(protocol_name, "interaction", "Trade",
                                SecondaryGroup(protocol_name), PyStr(protocol_info.name)) >>

\* fault variant of PatternMatches: the token name is not looked at
PatternMatchesSymbolOnly(patterns, sym, name) ==
    \E i \in 1..Len(patterns.symbols) : Contains(Upper(patterns.symbols[i]), sym)

\* any(p.upper() in sym for p in symbols) or any(p in name for p in names)
PatternMatches(patterns, sym, name) ==
    \/ \E i \in 1..Len(patterns.symbols) : Contains(Upper(patterns.symbols[i]), sym)
    \/ \E i \in 1..Len(patterns.names) : Contains(patterns.names[i], name)

\* fault variant of TokenMetaMatch: without the inner try/except, so that a
\* metadata answer that is no mapping ends the call in the outer handler
\* the token-pattern rules with Liquity tested before Angle
TokenMetaMatchLiquityFirst(to_addr, prov) ==
    IF to_addr # "" /\ _is_contract(prov)
    THEN LET meta == _get_token_meta(prov)
         IN  IF meta.k # "dict" THEN <<>>
             ELSE LET sym == Upper(OrElse(meta.symbol, PyStr("")).s)
                      name == Lower(OrElse(meta.name, PyStr("")).s)
                  IN  IF PatternMatches(CURVE_LP_PATTERNS, sym, name)
                      THEN << Filled("curve", "add_liquidity", TypeOf("add_liquidity", "Deposit"),
                                     "DEX Liquidity Mining",
                                     PyStr(Lookup(EXCHANGE_NAMES, "curve", "Curve Finance"))) >>
                      ELSE IF PatternMatches(LIQUITY_PATTERNS, sym, name)
                      THEN << Filled("liquity", "borrow", TypeOf("borrow", "Borrowing"),
                                     "Lending", PyStr("Liquity")) >>
                      ELSE IF PatternMatches(ANGLE_PATTERNS, sym, name)
                      THEN << Filled("angle", "interaction", TypeOf("interaction", "Trade"),
                                     "Stablecoin", PyStr("Angle")) >>
                      ELSE <<>>
    ELSE <<>>

TokenMetaMatchUnguarded(to_addr, prov) ==
    IF to_addr # "" /\ _is_contract(prov)
    THEN LET meta == _get_token_meta(prov)
         IN  IF meta.k # "dict" THEN << ZeroResult >>
             ELSE LET sym == Upper(OrElse(meta.symbol, PyStr("")).s)
                      name == Lower(OrElse(meta.name, PyStr("")).s)
                  IN  IF PatternMatches(CURVE_LP_PATTERNS, sym, name)
                      THEN << Filled("curve", "add_liquidity", TypeOf("add_liquidity", "Deposit"),
                                     "DEX Liquidity Mining",
                                     PyStr(Lookup(EXCHANGE_NAMES, "curve", "Curve Finance"))) >>
                      ELSE IF PatternMatches(ANGLE_PATTERNS, sym, name)
                      THEN << Filled("angle", "interaction", TypeOf("interaction", "Trade"),
                                     "Stablecoin", PyStr("Angle")) >>
                      ELSE IF PatternMatches(LIQUITY_PATTERNS, sym, name)
                      THEN << Filled("liquity", "borrow", TypeOf("borrow", "Borrowing"),
                                     "Lending", PyStr("Liquity")) >>
                      ELSE <<>>
    ELSE <<>>

\* heuristics based on token metadata (network == 'arbitrum'); an exception
\* inside (a metadata answer that is not a mapping) is swallowed by the
\* inner try/except and leaves `result` untouched
TokenMetaMatch(to_addr, prov) ==
    IF to_addr # "" /\ _is_contract(prov)
    THEN LET meta == _get_token_meta(prov)
         IN  IF meta.k # "dict" THEN <<>>
             ELSE LET sym == Upper(OrElse(meta.symbol, PyStr("")).s)
                      name == Lower(OrElse(meta.name, PyStr("")).s)
                  IN  IF PatternMatches(CURVE_LP_PATTERNS, sym, name)
                      THEN << Filled("curve", "add_liquidity", TypeOf("add_liquidity", "Deposit"),
                                     "DEX Liquidity Mining",
                                     PyStr(Lookup(EXCHANGE_NAMES, "curve", "Curve Finance"))) >>
                      ELSE IF PatternMatches(ANGLE_PATTERNS, sym, name)
                      THEN << Filled("angle", "interaction", TypeOf("interaction", "Trade"),
                                     "Stablecoin", PyStr("Angle")) >>
                      ELSE IF PatternMatches(LIQUITY_PATTERNS, sym, name)
                      THEN << Filled("liquity", "borrow", TypeOf("borrow", "Borrowing"),
                                     "Lending", PyStr("Liquity")) >>
                      ELSE <<>>
    ELSE <<>>

HIGH_GAS_THRESHOLD == 200000

\* fault variant of has_complex_input: a bare selector counts as complex
has_complex_input_bare_selector(input, sig) == Len(input) >= 10 /\ sig \notin ERC20Values

\* has_complex_input
has_complex_input(input, sig) == Len(input) > 10 /\ sig \notin ERC20Values

\* gas_used = int(tx.get('gasUsed', 0) or 0) is evaluated, and may raise,
\* only inside `if fn_name or (complex input)`
GenericParsesGas(input, sig, fn) == fn # "" \/ has_complex_input(input, sig)

gas_used_raw(t) == OrElse(GetDefault(t, "gasUsed", PyInt(0)), PyInt(0))

\* fault variant of GenericHeuristic: the protocol is labelled before the
\* decision and stays "unknown" when the heuristic does not fire
GenericHeuristicEarlyLabel(t, input, sig, fn) ==
    LET gas_used == IntValue(gas_used_raw(t))
        has_function_name == fn # "" /\ fn \notin {"transfer", "approve", "transferFrom"}
        has_very_high_gas == gas_used > HIGH_GAS_THRESHOLD
    IN  IF GenericParsesGas(input, sig, fn)
           /\ has_complex_input(input, sig)
           /\ (has_function_name \/ has_very_high_gas)
        THEN Filled("unknown", IF fn # "" THEN fn ELSE "interaction", "Trade", "Other",
                    PyStr("Unknown DeFi"))
        ELSE [ZeroResult EXCEPT !.protocol = PyStr("unknown")]

\* generic heuristics for unlabeled contracts / complex calls; evaluated
\* only when gas_used parsed
GenericHeuristic(t, input, sig, fn) ==
    LET gas_used == IntValue(gas_used_raw(t))
        has_function_name == fn # "" /\ fn \notin {"transfer", "approve", "transferFrom"}
        has_very_high_gas == gas_used > HIGH_GAS_THRESHOLD
    IN  IF GenericParsesGas(input, sig, fn)
           /\ has_complex_input(input, sig)
           /\ (has_function_name \/ has_very_high_gas)
        THEN Filled("unknown", IF fn # "" THEN fn ELSE "interaction", "Trade", "Other",
                    IF sig \in {"0x88316456", "0xa34123a7", "0xfc6f7865"}
                    THEN PyStr(Lookup(EXCHANGE_NAMES, "sparkdex_v3", "SparkDEX V3"))
                    ELSE PyStr("Unknown DeFi"))
        ELSE ZeroResult

\* fault variant of NetworkSteps: ARBITRUM_DEFI_PROTOCOLS consulted first
NetworkStepsSecondaryFirst(net, to_addr, input, sig, fn, prov) ==
    IF net = "flare"
    THEN LET m1 == FlareProtocolMatch(to_addr, sig, fn)
         IN  IF m1 # <<>> THEN m1 ELSE FlareStakingMatch(to_addr, sig, fn)
    ELSE IF net = "arbitrum"
    THEN LET m1 == ArbitrumProtocolMatch(net, to_addr, sig, fn)
             m2 == MethodFallbackMatch(net, input)
             m3 == SecondaryProtocolMatch(to_addr, sig)
         IN  IF m3 # <<>> THEN m3
             ELSE IF m1 # <<>> THEN m1
             ELSE IF m2 # <<>> THEN m2
             ELSE TokenMetaMatch(to_addr, prov)
    ELSE <<>>

\* the network-specific steps with the metadata heuristic moved before the
\* selector fallback map
NetworkStepsMetadataFirst(net, to_addr, input, sig, fn, prov) ==
    IF net = "flare"
    THEN LET m1 == FlareProtocolMatch(to_addr, sig, fn)
         IN  IF m1 # <<>> THEN m1 ELSE FlareStakingMatch(to_addr, sig, fn)
    ELSE IF net = "arbitrum"
    THEN LET m1 == ArbitrumProtocolMatch(net, to_addr, sig, fn)
             m2 == MethodFallbackMatch(net, input)
             m3 == SecondaryProtocolMatch(to_addr, sig)
             m4 == TokenMetaMatch(to_addr, prov)
         IN  IF m1 # <<>> THEN m1
             ELSE IF m4 # <<>> THEN m4
             ELSE IF m2 # <<>> THEN m2
             ELSE m3
    ELSE <<>>

\* the network-specific steps in source order: <<>> when none returned
NetworkSteps(net, to_addr, input, sig, fn, prov) ==
    IF net = "flare"
    THEN LET m1 == FlareProtocolMatch(to_addr, sig, fn)
         IN  IF m1 # <<>> THEN m1 ELSE FlareStakingMatch(to_addr, sig, fn)
    ELSE IF net = "arbitrum"
    THEN LET m1 == ArbitrumProtocolMatch(net, to_addr, sig, fn)
             m2 == MethodFallbackMatch(net, input)
             m3 == SecondaryProtocolMatch(to_addr, sig)
         IN  IF m1 # <<>> THEN m1
             ELSE IF m2 # <<>> THEN m2
             ELSE IF m3 # <<>> THEN m3
             ELSE TokenMetaMatch(to_addr, prov)
    ELSE <<>>

\* the body of the outer try: a raise inside it (int() of gasUsed) is caught
\* and answered with a fresh zero mapping
ClassifyBody(t, net, to_addr, input, sig, fn, prov) ==
    LET m == NetworkSteps(net, to_addr, input, sig, fn, prov)
    IN  IF m # <<>> THEN m[1]
        ELSE IF GenericParsesGas(input, sig, fn) /\ IntRaises(gas_used_raw(t))
        THEN ZeroResult
        ELSE GenericHeuristic(t, input, sig, fn)

\* analyze_defi_interaction(tx, network) with the provider answering prov
analyze_defi_interaction(t, net, prov) ==
    IF to_address_raises(t) \/ input_data_raises(t) THEN Raised
    ELSE LET to_addr == to_address(t)
             input == input_data(t)
             sig == method_signature(input)
         IN  IF input = "" \/ input = "0x" THEN Returned(ZeroResult)
             ELSE IF sig \in ERC20Passthrough THEN Returned(ZeroResult)
             ELSE Returned(ClassifyBody(t, net, to_addr, input, sig, fn_name(t), prov))

----------------------------------------------------------------------------
(* Inputs of the classifier specification *)

\* number of calldata characters that follow a selector in the longer inputs
MaxData == 2

RECURSIVE Zeros(_)
Zeros(n) == IF n = 0 THEN "" ELSE "0" \o Zeros(n - 1)

\* transfer, approve, transferFrom
ERC20Selectors == {"0xa9059cbb", "0x095ea7b3", "0x23b872dd"}

ProtocolSelectors ==
    { "0x617ba037", "0x693ec85e",       \* supply, withdraw
      "0x88316456",                     \* mint
      "0x38ed1739",                     \* swapExactTokensForTokens
      "0x52bbbe29",                     \* Balancer swap
      "0xdeadbeef" }                    \* in no map

InputValues ==
    {Absent, PyNone, PyStr(""), PyStr("0x"), PyStr("0x1234")}
      \cup {PyStr(s) : s \in ERC20Selectors \cup {"0x617ba037", "0xdeadbeef"}}
      \cup {PyStr(s \o Zeros(MaxData)) : s \in ProtocolSelectors \cup {"0xa9059cbb"}}

AAVE_POOL == "0x794a61358D6845594F94dc1DB02A252b5b4814aD"
OPENOCEAN_ROUTER == "0x6352a56caadc4f1e25cd6c21570aae1b9d1bc644"
SHARED_ROUTER_LOWER == "0xe592427a0aece92de3edee1f18e0157c05861564"
SPARKDEX_FACTORY == "0x0227628f3F023bb0B980b67D528571c95c6DaC1c"
BALANCER_VAULT == "0xBA12222222228d8Ba445958a75a0704d566BF2C8"
WFLR_CONTRACT == "0x1D80c49BbBCd1C0911346656B529DF9E5c2F783d"
UNLISTED_CONTRACT == "0x9999999999999999999999999999999999999999"

ToValues ==
    {Absent, PyNone}
      \cup {PyStr(a) : a \in {AAVE_POOL, OPENOCEAN_ROUTER, SHARED_ROUTER_LOWER,
                              SPARKDEX_FACTORY, BALANCER_VAULT, WFLR_CONTRACT,
                              UNLISTED_CONTRACT}}

FunctionNameValues ==
    {Absent, PyNone, PyStr(""),
     PyStr("swap(uint256,address)"),
     PyStr(" mint (uint256)"),
     PyStr("doSomethingComplex(bytes)"),
     PyStr("transferFrom(address,address,uint256)"),
     PyStr("(uint256)")}

GasUsedValues ==
    {Absent, PyNone, PyInt(HIGH_GAS_THRESHOLD), PyStr("200001"), PyStr("0x5208")}

NetworkValues == {"arbitrum", "flare", "ethereum", ""}

Transactions ==
    [to : ToValues, input : InputValues, functionName : FunctionNameValues,
     gasUsed : GasUsedValues]

Meta(name, symbol) == [k |-> "dict", name |-> name, symbol |-> symbol]

TokenMetaAnswers ==
    { [k |-> "raise"],
      PyNone,
      Meta(PyStr(""), PyStr("")),
      Meta(PyStr("USD Coin"), PyStr("USDC")),
      Meta(PyStr("Some Curve Token"), PyStr("XYZ")),
      Meta(PyNone, PyStr("3crv-f")),
      Meta(PyStr("Angle Protocol"), PyStr("agEUR")),
      Meta(PyStr("LUSD Stablecoin"), PyStr("LUSD")),
      Meta(PyStr("Curve agEUR LP"), PyStr("crvagEUR")),
      Meta(PyStr("agEUR Stablecoin"), PyStr("EURA")),
      Meta(PyStr("Angle LUSD vault"), PyStr("ANGLE-LUSD")),
      Meta(PyStr("LUSD Curve"), PyStr("LUSD3CRV-f")) }

NotAsked == [k |-> "not_asked"]

\* what the provider answers about `to`, listing the answers a call can
\* observe, in call order: get_address_info, then is_contract if that raised,
\* then the token metadata if the address was found to be a contract
ProviderAnswers ==
    { p \in [address_info : {"raise", "is_contract", "not_contract", "no_key"},
             is_contract : {"not_asked", "true", "false", "raise"},
             token_meta : TokenMetaAnswers \cup {NotAsked}] :
        /\ (p.is_contract = "not_asked") <=> (p.address_info # "raise")
        /\ (p.token_meta = NotAsked) <=> ~_is_contract(p) }

\* address info without an is_contract key, as get_address_info builds it
NoContractKey == [address_info |-> "no_key", is_contract |-> "not_asked", token_meta |-> NotAsked]

----------------------------------------------------------------------------
(* Batch callers of the monolith classifier: app.py *)

\* analyze_defi_interaction of app.py: tx.get('to', '').lower() raises on a
\* non-str; the early returns give the zero mapping; past them the function
\* body ends, so every other call returns None
app_analyze_defi_interaction(t, net) ==
    LET to_value == GetDefault(t, "to", PyStr(""))
        input_value == GetDefault(t, "input", PyStr(""))
    IN  IF to_value.k # "str" THEN Raised
        ELSE IF ~Truthy(input_value) \/ input_value = PyStr("0x")
             THEN Returned(ZeroResult)
        ELSE IF input_value.k # "str" THEN Raised
        ELSE IF method_signature(input_value.s)
                    \in {"0xa9059cbb", "0x095ea7b3", "0x23b872dd"}
             THEN Returned(ZeroResult)
        ELSE Returned(PyNone)

\* isinstance(defi_analysis, dict): Python scalars carry the tag k
IsDict(v) == "k" \notin DOMAIN v

\* {'protocol': 'unknown', 'is_defi': False}
DefaultAnalysis == [is_defi |-> FALSE, protocol |-> PyStr("unknown")]

\* NETWORKS: network key -> display name
NETWORKS ==
    << [key |-> "flare", value |-> "Flare"],
       [key |-> "arbitrum", value |-> "Arbitrum"] >>

NetworkKeys == {NETWORKS[i].key : i \in 1..Len(NETWORKS)}

\* method_mapping of convert_to_required_format
method_mapping ==
    << [key |-> "0xa9059cbb", value |-> "Transfer"],
       [key |-> "0x095ea7b3", value |-> "Approve"],
       [key |-> "0x23b872dd", value |-> "TransferFrom"],
       [key |-> "0x617ba037", value |-> "Supply"],
       [key |-> "0x693ec85e", value |-> "Withdraw"],
       [key |-> "0xa415bcad", value |-> "Borrow"],
       [key |-> "0x573ade81", value |-> "Repay"],
       [key |-> "0x12aa3caf", value |-> "Swap"],
       [key |-> "0x7ff36ab5", value |-> "SwapETH"],
       [key |-> "0x414bf389", value |-> "ExactInputSingle"],
       [key |-> "0x88316456", value |-> "Mint"],
       [key |-> "0xa34123a7", value |-> "Burn"],
       [key |-> "0xfc6f7865", value |-> "Collect"],
       [key |-> "0xd0e30db0", value |-> "Deposit"],
       [key |-> "0x2e1a7d4d", value |-> "Withdraw"],
       [key |-> "0x5c19a95c", value |-> "Delegate"],
       [key |-> "0x3d18b912", value |-> "ClaimRewards"] >>

\* method: 'Transfer' unless the input holds a selector, then its mapped
\* name or 'Unknown'
RowMethod(t) ==
    LET input_value == GetDefault(t, "input", PyStr(""))
    IN  IF Truthy(input_value) /\ input_value.k = "str" /\ Len(input_value.s) >= 10
        THEN Lookup(method_mapping, Prefix(input_value.s, 10), "Unknown")
        ELSE "Transfer"

\* platform_label: the analysis' exchange, else the display name of its
\* protocol key, else ''
platform_label(defi_analysis) ==
    LET has(key) == IsDict(defi_analysis) /\ key \in DOMAIN defi_analysis
        protocol_key ==
            IF has("protocol") /\ Truthy(defi_analysis.protocol)
            THEN defi_analysis.protocol.s ELSE ""
    IN  IF has("exchange") /\ Truthy(defi_analysis.exchange)
        THEN defi_analysis.exchange.s
        ELSE IF protocol_key # "" THEN ExchangeName(protocol_key).s ELSE ""

\* convert_to_required_format: int(tx.get('gasUsed', 0)) raises on None and on
\* text that is no decimal number, NETWORKS[network] on an unknown network;
\* the columns kept are those computed from the modelled fields
convert_to_required_format(t, defi_analysis, net) ==
    IF IntRaises(GetDefault(t, "gasUsed", PyInt(0))) THEN Raised
    ELSE IF net \notin NetworkKeys THEN Raised
    ELSE Returned([To |-> GetDefault(t, "to", PyStr("")),
                   Method |-> RowMethod(t),
                   Chain |-> Lookup(NETWORKS, net, ""),
                   Platform |-> platform_label(defi_analysis),
                   FunctionName |-> fn_name(t)])

\* the CSV document built from the rows (header line and one line per row)
CsvOf(rows) == [k |-> "bytes", rows |-> rows]

\* fetch_transactions_from_explorer raised instead of returning a list
ExplorerRaises == [k |-> "raise"]

NoJob == [k |-> "no_job"]
NoResponse == [k |-> "no_response"]

\* _init_job: the record stored in JOBS
_init_job(nets) ==
    [status |-> "running", error |-> PyNone, csv_bytes |-> PyNone,
     progress |-> [n \in Range(nets) |-> [total |-> 0, processed |-> 0]]]

Unstarted == [pc |-> "unstarted", txs |-> <<>>, i |-> 0, local_rows |-> <<>>]

Min(a, b) == IF a <= b THEN a ELSE b

\* _update_progress(job_id, network, inc=1)
_update_progress(net_progress) ==
    [net_progress EXCEPT
        !.processed = Min(net_progress.processed + 1,
                          IF net_progress.total = 0 THEN 10^9
                          ELSE net_progress.total)]

\* the per-transaction classification of process_network, with its
\* defaults for a raise and for a non-dict
ClassifyOrDefault(t, net) ==
    LET defi_analysis == app_analyze_defi_interaction(t, net)
    IN  IF defi_analysis = Raised THEN DefaultAnalysis
        ELSE IF ~IsDict(defi_analysis.v) THEN DefaultAnalysis
        ELSE defi_analysis.v

----------------------------------------------------------------------------
(* Inputs of the batch specification *)

\* number of transactions the explorer returns per network, at most
MaxBatch == 2

PlainTransfer ==
    [to |-> PyStr(UNLISTED_CONTRACT), input |-> PyStr("0x"),
     functionName |-> PyStr(""), gasUsed |-> PyStr("21000")]

\* a contract call: the input holds a selector outside the ERC-20 three
AaveSupply ==
    [to |-> PyStr(AAVE_POOL), input |-> PyStr("0x617ba037"),
     functionName |-> PyStr("supply(address,uint256,address,uint16)"),
     gasUsed |-> PyStr("200001")]

\* `to` is null
NullRecipient == [PlainTransfer EXCEPT !.to = PyNone]

\* gasUsed is no decimal number
HexGas == [PlainTransfer EXCEPT !.gasUsed = PyStr("0x5208")]

BatchTransactions == {PlainTransfer, AaveSupply, NullRecipient, HexGas}

SeqsUpTo(S, n) == UNION {[1..m -> S] : m \in 0..n}

\* a list of transactions, or a raise
ExplorerAnswers ==
    {PyList(txs) : txs \in SeqsUpTo(BatchTransactions, MaxBatch)}
      \cup {ExplorerRaises}

RequestedNetworks == {<<"arbitrum">>, <<"flare">>, <<"arbitrum", "flare">>}


\* the row process_network builds for a transaction: classification with
\* its defaults, then convert_to_required_format; Raised when the row is
\* skipped. Tabulated over the transactions the explorer returns.
ProcessedRow ==
    [t \in BatchTransactions, n \in NetworkKeys |->
        convert_to_required_format(t, ClassifyOrDefault(t, n), n)]

\* POST /start_job for a request that passes validation: _init_job, then
\* process_job starts one process_network thread per network
StartJob ==
    /\ JOBS = NoJob
    /\ JOBS' = _init_job(networks)
    /\ worker' = [n \in Range(networks) |-> [Unstarted EXCEPT !.pc = "started"]]
    /\ UNCHANGED <<calls, cacheVars, saveVars, threadVars>>
    /\ UNCHANGED <<tx, network, provider, result, pc,
                   networks, explorer, all_transactions_local, response>>

\* process_network up to its loop: the fetch; a raise ends the thread in
\* its `network failed` handler
FetchNetwork(n) ==
    /\ worker[n].pc = "started"
    /\ IF explorer[n] = ExplorerRaises
       THEN /\ worker' = [worker EXCEPT ![n].pc = "failed"]
            /\ UNCHANGED JOBS
       ELSE /\ worker' = [worker EXCEPT ![n] =
                            [pc |-> "loop", txs |-> explorer[n].items, i |-> 1,
                             local_rows |-> <<>>]]
            /\ JOBS' = [JOBS EXCEPT !.progress[n].total = Len(explorer[n].items)]
    /\ UNCHANGED <<calls, cacheVars, saveVars, threadVars>>
    /\ UNCHANGED <<tx, network, provider, result, pc,
                   networks, explorer, all_transactions_local, response>>

\* one iteration of process_network's loop: classify, format (a row that
\* fails to format is skipped), count the transaction as processed
ProcessTransaction(n) ==
    /\ worker[n].pc = "loop"
    /\ worker[n].i <= Len(worker[n].txs)
    /\ LET t == worker[n].txs[worker[n].i]
           row == ProcessedRow[t, n]
       IN  worker' = [worker EXCEPT
                ![n].i = @ + 1,
                ![n].local_rows = IF row = Raised THEN @ ELSE Append(@, row.v)]
    /\ JOBS' = [JOBS EXCEPT !.progress[n] = _update_progress(@)]
    /\ UNCHANGED <<calls, cacheVars, saveVars, threadVars>>
    /\ UNCHANGED <<tx, network, provider, result, pc,
                   networks, explorer, all_transactions_local, response>>

\* after the loop: all_transactions_local.extend(local_rows) under the lock
PublishRows(n) ==
    /\ worker[n].pc = "loop"
    /\ worker[n].i > Len(worker[n].txs)
    /\ all_transactions_local' = all_transactions_local \o worker[n].local_rows
    /\ worker' = [worker EXCEPT ![n].pc = "done"]
    /\ UNCHANGED <<calls, cacheVars, saveVars, threadVars>>
    /\ UNCHANGED <<tx, network, provider, result, pc,
                   networks, explorer, JOBS, response>>

\* process_job after joining its threads: write the CSV, _finalize_job
FinishJob ==
    /\ JOBS # NoJob
    /\ JOBS.status = "running"
    /\ \A n \in DOMAIN worker : worker[n].pc \in {"done", "failed"}
    /\ JOBS' = [JOBS EXCEPT !.csv_bytes = CsvOf(all_transactions_local),
                            !.status = "completed"]
    /\ UNCHANGED <<calls, cacheVars, saveVars, threadVars>>
    /\ UNCHANGED <<tx, network, provider, result, pc,
                   networks, explorer, worker, all_transactions_local, response>>

\* get_transactions, the loop over one network's transactions:
\* defi_analysis['is_defi'] raises on None, and nothing in the loop catches
RECURSIVE AnalyzeTransactions(_, _, _)
AnalyzeTransactions(transactions, net, all_transactions) ==
    IF transactions = <<>> THEN Returned(all_transactions)
    ELSE LET t == Head(transactions)
             defi_analysis == app_analyze_defi_interaction(t, net)
         IN  IF defi_analysis = Raised THEN Raised
             ELSE IF ~IsDict(defi_analysis.v) THEN Raised
             ELSE LET transaction_row ==
                          convert_to_required_format(t, defi_analysis.v, net)
                  IN  IF transaction_row = Raised THEN Raised
                      ELSE AnalyzeTransactions(Tail(transactions), net,
                               Append(all_transactions, transaction_row.v))

\* get_transactions, the loop over the networks
RECURSIVE AnalyzeNetworks(_, _, _)
AnalyzeNetworks(nets, expl, all_transactions) ==
    IF nets = <<>> THEN Returned(all_transactions)
    ELSE IF expl[Head(nets)] = ExplorerRaises THEN Raised
    ELSE LET got == AnalyzeTransactions(expl[Head(nets)].items, Head(nets),
                                        all_transactions)
         IN  IF got = Raised THEN Raised
             ELSE AnalyzeNetworks(Tail(nets), expl, got.v)

\* get_transactions for a request that passes validation: 500 from the
\* outer handler, 404 when no row was built, else the CSV
get_transactions(nets, expl) ==
    LET all_transactions == AnalyzeNetworks(nets, expl, <<>>)
    IN  IF all_transactions = Raised THEN [status |-> 500, body |-> PyNone]
        ELSE IF all_transactions.v = <<>> THEN [status |-> 404, body |-> PyNone]
        ELSE [status |-> 200, body |-> CsvOf(all_transactions.v)]

\* POST /get_transactions
GetTransactions ==
    /\ response = NoResponse
    /\ networks # <<>>
    /\ response' = get_transactions(networks, explorer)
    /\ UNCHANGED <<calls, cacheVars, saveVars, threadVars>>
    /\ UNCHANGED <<tx, network, provider, result, pc,
                   networks, explorer, JOBS, worker, all_transactions_local>>

----------------------------------------------------------------------------
(* Token-metadata cache, app_new/services/runtime.py *)

\* number of calls made on the cache, at most
MaxOps == 2

\* a mapping without keys
EmptyDict == [k |-> "dict", name |-> Absent, symbol |-> Absent]

\* the key built from the network alone
token_meta_key_network_only(addr, net) == net \o ":"

\* fault variant of token_meta_key: the address is not lower-cased
token_meta_key_as_given(addr, net) == net \o ":" \o OrElse(addr, PyStr("")).s

\* key = f"{network}:{(addr or '').lower()}"
token_meta_key(addr, net) == net \o ":" \o Lower(OrElse(addr, PyStr("")).s)

\* key in _TOKEN_META_CACHE
CacheHas(cache, key) == \E e \in cache : e.key = key

\* _TOKEN_META_CACHE[key]
CacheGet(cache, key) == (CHOOSE e \in cache : e.key = key).value

\* _TOKEN_META_CACHE[key] = value
CachePut(cache, key, value) ==
    {e \in cache : e.key # key} \cup {[key |-> key, value |-> value]}

\* _ensure_token_meta_cache_loaded: once, the entries of a readable file
\* whose values are mappings are put into the cache
_ensure_token_meta_cache_loaded(cache, loaded, file) ==
    IF loaded \/ file.k # "file" THEN cache
    ELSE LET read == {e \in file.entries : e.value.k = "dict"}
         IN  {e \in cache : ~CacheHas(read, e.key)} \cup read

\* _save_token_meta_cache_to_disk: the file becomes the cache; a failure to
\* write is logged and leaves the file as it was
_save_token_meta_cache_to_disk(cache, file) ==
    IF file.writable THEN [k |-> "file", entries |-> cache, writable |-> TRUE]
    ELSE file

\* get_token_meta answering an empty mapping when the delegation fails
get_token_meta_empty_on_failure(app_answer) ==
    IF app_answer.k = "raise" THEN EmptyDict ELSE app_answer

\* get_token_meta: what app.get_token_meta answers, or empty name and symbol
\* when it answers nothing or raises and the RPC lookup finds no name
get_token_meta(app_answer) ==
    IF app_answer.k = "raise" THEN EmptyMeta ELSE OrElse(app_answer, EmptyMeta)

\* set_token_meta(addr, network, meta)
SetTokenMeta(addr, net, meta) ==
    /\ Len(cache_log) < MaxOps
    /\ LET key == token_meta_key(addr, net)
           loaded == _ensure_token_meta_cache_loaded(_TOKEN_META_CACHE,
                         _TOKEN_META_CACHE_LOADED, cache_file)
           stored == CachePut(loaded, key, OrElse(meta, EmptyMeta))
       IN  /\ _TOKEN_META_CACHE' = stored
           /\ _TOKEN_META_CACHE_LOADED' = TRUE
           /\ cache_file' = _save_token_meta_cache_to_disk(stored, cache_file)
           /\ cache_log' = Append(cache_log,
                  [op |-> "set", addr |-> addr, net |-> net, meta |-> meta,
                   value |-> PyNone, asked |-> <<>>, app |-> PyNone])
    /\ UNCHANGED <<tx, network, provider, result, pc, calls, saveVars, threadVars>>
    /\ UNCHANGED <<networks, explorer, JOBS, worker, all_transactions_local,
                   response>>

\* get_token_meta_cached(addr, network); app_answer is what the delegate of
\* get_token_meta would answer
GetTokenMetaCached(addr, net, app_answer) ==
    /\ Len(cache_log) < MaxOps
    /\ LET key == token_meta_key(addr, net)
           loaded == _ensure_token_meta_cache_loaded(_TOKEN_META_CACHE,
                         _TOKEN_META_CACHE_LOADED, cache_file)
           meta == get_token_meta(app_answer)
           asked == << [addr |-> addr, net |-> net, answer |-> meta] >>
           entry(value, provider_calls) ==
               [op |-> "get", addr |-> addr, net |-> net, meta |-> PyNone,
                value |-> value, asked |-> provider_calls, app |-> app_answer]
       IN  /\ _TOKEN_META_CACHE_LOADED' = TRUE
           /\ IF CacheHas(loaded, key)
              THEN /\ _TOKEN_META_CACHE' = loaded
                   /\ cache_file' = cache_file
                   /\ cache_log' = Append(cache_log, entry(CacheGet(loaded, key), <<>>))
              ELSE IF Truthy(meta) /\ meta.k = "dict"
              THEN /\ _TOKEN_META_CACHE' = CachePut(loaded, key, meta)
                   /\ cache_file' = _save_token_meta_cache_to_disk(
                                        CachePut(loaded, key, meta), cache_file)
                   /\ cache_log' = Append(cache_log, entry(meta, asked))
              ELSE /\ _TOKEN_META_CACHE' = loaded
                   /\ cache_file' = cache_file
                   /\ cache_log' = Append(cache_log, entry(EmptyMeta, asked))
    /\ UNCHANGED <<tx, network, provider, result, pc, calls, saveVars, threadVars>>
    /\ UNCHANGED <<networks, explorer, JOBS, worker, all_transactions_local,
                   response>>

----------------------------------------------------------------------------
(* Inputs of the cache specification *)

\* addresses: two spellings of one address, and no address
CacheAddresses == {PyStr("0xAbC"), PyStr("0xabc"), PyNone}

\* the meta argument of set_token_meta
MetaArguments == {Meta(PyStr("TestToken"), PyStr("TT")), EmptyDict, PyNone}

\* outcomes of app.get_token_meta
AppAnswers == {Meta(PyStr("FB"), PyStr("FB")), EmptyDict, [k |-> "raise"]}

\* token_meta_cache.json before the first use: missing, unreadable, or
\* holding a mapping entry and an entry that is no mapping
CacheFiles ==
    LET listed == { [key |-> "arbitrum:0xabc",
                     value |-> Meta(PyStr("Sample"), PyStr("SMP"))],
                    [key |-> "flare:0xabc", value |-> PyStr("stale")] }
    IN  { [k |-> "absent", entries |-> {}, writable |-> w] : w \in BOOLEAN }
          \cup { [k |-> "invalid", entries |-> {}, writable |-> w] : w \in BOOLEAN }
          \cup { [k |-> "file", entries |-> listed, writable |-> w] : w \in BOOLEAN }
----------------------------------------------------------------------------
(* Inputs of the repeated-call specification *)

\* number of classifier calls completed before the present one, at most
MaxCalls == 2

\* transactions as the explorers give them, and transactions whose `to`,
\* input or functionName is no string
CallInputs ==
    LET ComplexCallTx ==
            [to |-> PyStr(UNLISTED_CONTRACT),
             input |-> PyStr("0xdeadbeef" \o Zeros(MaxData)),
             functionName |-> PyStr("doSomethingComplex(bytes)"),
             gasUsed |-> PyStr("200001")]
        CurveAnswer ==
            [address_info |-> "is_contract", is_contract |-> "not_asked",
             token_meta |-> Meta(PyStr("Curve agEUR LP"), PyStr("crvagEUR"))]
        Asked(t, net, prov) == [tx |-> t, network |-> net, provider |-> prov]
    IN  { Asked(PlainTransfer, "arbitrum", NoContractKey),
          Asked(AaveSupply, "arbitrum", NoContractKey),
          Asked([AaveSupply EXCEPT !.to = PyStr(WFLR_CONTRACT)], "flare", NoContractKey),
          Asked(ComplexCallTx, "arbitrum", CurveAnswer),
          Asked(ComplexCallTx, "arbitrum", NoContractKey),
          Asked([ComplexCallTx EXCEPT !.gasUsed = PyStr("0x5208")], "arbitrum",
                NoContractKey),
          Asked([ComplexCallTx EXCEPT !.functionName = PyInt(7)], "arbitrum",
                NoContractKey),
          Asked([AaveSupply EXCEPT !.to = PyInt(123)], "arbitrum", NoContractKey),
          Asked([AaveSupply EXCEPT !.input = PyInt(5)], "arbitrum", NoContractKey) }
----------------------------------------------------------------------------
(* Classifier specification: one call of analyze_defi_interaction *)

\* no batch request is made
BatchIdle ==
    /\ networks = <<>>
    /\ explorer = <<>>
    /\ JOBS = NoJob
    /\ worker = <<>>
    /\ all_transactions_local = <<>>
    /\ response = NoResponse

\* no call is made on the token-metadata cache, and there is no cache file
CacheIdle ==
    /\ _TOKEN_META_CACHE = {}
    /\ _TOKEN_META_CACHE_LOADED = FALSE
    /\ cache_file = [k |-> "absent", entries |-> {}, writable |-> TRUE]
    /\ cache_log = <<>>

\* no save is scheduled
SaveIdle ==
    /\ _SAVE_TIMER = 0
    /\ timers = <<>>
    /\ saves = 0

\* no classifier call runs in a thread
ThreadsIdle ==
    /\ threads = <<>>
    /\ disk_at_start = [k |-> "absent", entries |-> {}, writable |-> TRUE]

\* the provider's answers are varied for the address no table lists
Init ==
    /\ tx \in Transactions
    /\ network \in NetworkValues
    /\ provider \in (IF tx.to = PyStr(UNLISTED_CONTRACT) THEN ProviderAnswers
                     ELSE {NoContractKey})
    /\ result = NotCalled
    /\ pc = "ready"
    /\ calls = <<>>
    /\ BatchIdle
    /\ CacheIdle
    /\ SaveIdle
    /\ ThreadsIdle

Call ==
    /\ pc = "ready"
    /\ result' = analyze_defi_interaction(tx, network, provider)
    /\ pc' = "returned"
    /\ UNCHANGED <<tx, network, provider>>
    /\ UNCHANGED <<networks, explorer, JOBS, worker, all_transactions_local,
                   response>>
    /\ UNCHANGED <<calls, cacheVars, saveVars, threadVars>>

Next == Call

Spec == Init /\ [][Next]_vars

----------------------------------------------------------------------------
(* Batch specification: one job and one /get_transactions request over the *)
(* same explorer answers                                                   *)

\* no stand-alone classifier call is made
ClassifierIdle ==
    /\ tx = PlainTransfer
    /\ network = ""
    /\ provider = NoContractKey
    /\ result = NotCalled
    /\ pc = "idle"
    /\ calls = <<>>

InitBatch ==
    /\ ClassifierIdle
    /\ CacheIdle
    /\ SaveIdle
    /\ ThreadsIdle
    /\ networks \in RequestedNetworks
    /\ explorer \in [Range(networks) -> ExplorerAnswers]
    /\ JOBS = NoJob
    /\ worker = [n \in Range(networks) |-> Unstarted]
    /\ all_transactions_local = <<>>
    /\ response = NoResponse

NextBatch ==
    \/ StartJob
    \/ \E n \in Range(networks) : FetchNetwork(n)
    \/ \E n \in Range(networks) : ProcessTransaction(n)
    \/ \E n \in Range(networks) : PublishRows(n)
    \/ FinishJob
    \/ GetTransactions

SpecBatch == InitBatch /\ [][NextBatch]_vars

----------------------------------------------------------------------------
(* Repeated-call specification: a caller classifying one transaction after *)
(* another                                                                 *)

InitCalls ==
    /\ \E c \in CallInputs :
          /\ tx = c.tx
          /\ network = c.network
          /\ provider = c.provider
    /\ result = NotCalled
    /\ pc = "ready"
    /\ calls = <<>>
    /\ BatchIdle
    /\ CacheIdle
    /\ SaveIdle
    /\ ThreadsIdle

\* the caller keeps the outcome and turns to its next transaction
NextCall ==
    /\ pc = "returned"
    /\ Len(calls) < MaxCalls
    /\ calls' = Append(calls, [tx |-> tx, network |-> network,
                               provider |-> provider, result |-> result])
    /\ \E c \in CallInputs :
          /\ tx' = c.tx
          /\ network' = c.network
          /\ provider' = c.provider
    /\ result' = NotCalled
    /\ pc' = "ready"
    /\ UNCHANGED <<networks, explorer, JOBS, worker, all_transactions_local,
                   response>>
    /\ UNCHANGED <<cacheVars, saveVars, threadVars>>

NextCalls == Call \/ NextCall

SpecCalls == InitCalls /\ [][NextCalls]_vars

----------------------------------------------------------------------------
(* Cache specification: calls of set_token_meta and get_token_meta_cached  *)

InitCache ==
    /\ ClassifierIdle
    /\ BatchIdle
    /\ SaveIdle
    /\ ThreadsIdle
    /\ _TOKEN_META_CACHE = {}
    /\ _TOKEN_META_CACHE_LOADED = FALSE
    /\ cache_file \in CacheFiles
    /\ cache_log = <<>>

NextCache ==
    \/ \E addr \in CacheAddresses, net \in NetworkKeys, meta \in MetaArguments :
          SetTokenMeta(addr, net, meta)
    \/ \E addr \in CacheAddresses, net \in NetworkKeys, app_answer \in AppAnswers :
          GetTokenMetaCached(addr, net, app_answer)

SpecCache == InitCache /\ [][NextCache]_vars

----------------------------------------------------------------------------
(* The debounced save of the monolith's token-metadata cache: app.py's
   schedule_save_token_meta_cache and the worker its timers run. The body of
   schedule_save_token_meta_cache and the worker's clearing of _SAVE_TIMER
   hold _SAVE_TIMER_LOCK, so each is one step; the save itself runs outside
   the lock. A timer is "waiting" until its delay has passed, "saving" and
   then "clearing" while its worker runs, "cancelled" when cancel() reached
   it while it waited, "finished" afterwards. *)

MaxSchedules == 4

\* threading.Timer.cancel(): stops a timer that still waits, and has no effect
\* on one whose function has started
cancel(state) == IF state = "waiting" THEN "cancelled" ELSE state

\* schedule_save_token_meta_cache()
ScheduleSave ==
    /\ Len(timers) < MaxSchedules
    /\ LET cancelled == IF _SAVE_TIMER # 0
                        THEN [timers EXCEPT ![_SAVE_TIMER] = cancel(@)]
                        ELSE timers
       IN  /\ timers' = Append(cancelled, "waiting")
           /\ _SAVE_TIMER' = Len(timers) + 1
    /\ UNCHANGED saves
    /\ UNCHANGED <<tx, network, provider, result, pc, calls>>
    /\ UNCHANGED <<networks, explorer, JOBS, worker, all_transactions_local,
                   response>>
    /\ UNCHANGED <<cacheVars, threadVars>>

\* Timer.run(): the delay has passed and the timer was not cancelled, so
\* _debounced_save_worker starts
TimerFires(t) ==
    /\ timers[t] = "waiting"
    /\ timers' = [timers EXCEPT ![t] = "saving"]
    /\ UNCHANGED <<_SAVE_TIMER, saves>>
    /\ UNCHANGED <<tx, network, provider, result, pc, calls>>
    /\ UNCHANGED <<networks, explorer, JOBS, worker, all_transactions_local,
                   response>>
    /\ UNCHANGED <<cacheVars, threadVars>>

\* _debounced_save_worker: save_token_meta_cache()
WorkerSaves(t) ==
    /\ timers[t] = "saving"
    /\ timers' = [timers EXCEPT ![t] = "clearing"]
    /\ saves' = saves + 1
    /\ UNCHANGED _SAVE_TIMER
    /\ UNCHANGED <<tx, network, provider, result, pc, calls>>
    /\ UNCHANGED <<networks, explorer, JOBS, worker, all_transactions_local,
                   response>>
    /\ UNCHANGED <<cacheVars, threadVars>>

\* _debounced_save_worker: finally: with _SAVE_TIMER_LOCK: _SAVE_TIMER = None
WorkerClears(t) ==
    /\ timers[t] = "clearing"
    /\ timers' = [timers EXCEPT ![t] = "finished"]
    /\ _SAVE_TIMER' = 0
    /\ UNCHANGED saves
    /\ UNCHANGED <<tx, network, provider, result, pc, calls>>
    /\ UNCHANGED <<networks, explorer, JOBS, worker, all_transactions_local,
                   response>>
    /\ UNCHANGED <<cacheVars, threadVars>>

InitSave ==
    /\ ClassifierIdle
    /\ BatchIdle
    /\ CacheIdle
    /\ ThreadsIdle
    /\ _SAVE_TIMER = 0
    /\ timers = <<>>
    /\ saves = 0

NextSave ==
    \/ ScheduleSave
    \/ \E t \in 1..Len(timers) : TimerFires(t)
    \/ \E t \in 1..Len(timers) : WorkerSaves(t)
    \/ \E t \in 1..Len(timers) : WorkerClears(t)

SpecSave == InitSave /\ [][NextSave]_vars

----------------------------------------------------------------------------
(* Classifier calls running in threads. Each thread makes one call of
   analyze_defi_interaction on arbitrum; a call that reaches the metadata
   heuristic goes through runtime.get_token_meta_cached, which takes no lock:
   the loaded flag, the cache dict and the cache file are read and written
   in separate steps, and the steps of different threads interleave. *)

MaxThreads == 2

CACHED_CONTRACT == "0xAbC"

\* a call that no address rule and no selector rule classifies
UnlistedCall(to) ==
    [to |-> PyStr(to), input |-> PyStr("0xdeadbeef"), functionName |-> Absent,
     gasUsed |-> Absent]

ThreadTransactions ==
    {UnlistedCall(UNLISTED_CONTRACT), UnlistedCall(CACHED_CONTRACT), AaveSupply}

\* what app.get_token_meta answers for an address, the same for every caller
AppAnswerFor(addr) ==
    IF addr = Lower(UNLISTED_CONTRACT)
    THEN Meta(PyStr("Angle LUSD vault"), PyStr("ANGLE-LUSD"))
    ELSE IF addr = Lower(CACHED_CONTRACT) THEN [k |-> "raise"]
    ELSE EmptyDict

\* token_meta_cache.json when the threads start
ThreadCacheFiles ==
    { [k |-> "absent", entries |-> {}, writable |-> TRUE],
      [k |-> "file", writable |-> TRUE,
       entries |-> { [key |-> "arbitrum:" \o Lower(UNLISTED_CONTRACT),
                      value |-> Meta(PyStr("LUSD Curve"), PyStr("LUSD3CRV-f"))],
                     [key |-> "flare:0xabc", value |-> PyStr("stale")] }] }

\* the provider's contract answer, the same for every address
ThreadProviders ==
    { [address_info |-> "is_contract", is_contract |-> "not_asked", token_meta |-> NotAsked],
      NoContractKey }

\* the call gets as far as `meta = _get_token_meta(to_address, network)`
MetadataAsked(t, net, prov) ==
    /\ ~to_address_raises(t) /\ ~input_data_raises(t)
    /\ LET to_addr == to_address(t)
           input == input_data(t)
           sig == method_signature(input)
       IN  /\ ~(input = "" \/ input = "0x")
           /\ sig \notin ERC20Passthrough
           /\ net = "arbitrum"
           /\ ArbitrumProtocolMatch(net, to_addr, sig, fn_name(t)) = <<>>
           /\ MethodFallbackMatch(net, input) = <<>>
           /\ SecondaryProtocolMatch(to_addr, sig) = <<>>
           /\ to_addr # "" /\ _is_contract(prov)

ThreadKey(i) == token_meta_key(PyStr(to_address(threads[i].tx)), "arbitrum")

At(i, where) == i \in 1..Len(threads) /\ threads[i].pc = where

\* thread i moves on; `steps` counts the steps the thread has taken itself
Goto(i, where) ==
    threads' = [threads EXCEPT ![i].pc = where, ![i].steps = @ + 1]

ThreadFrame ==
    /\ UNCHANGED <<tx, network, provider, result, pc, calls>>
    /\ UNCHANGED <<networks, explorer, JOBS, worker, all_transactions_local,
                   response>>
    /\ UNCHANGED <<cache_log, disk_at_start, saveVars>>

\* the steps before the metadata heuristic
CallBegins(i) ==
    /\ At(i, "start")
    /\ IF MetadataAsked(threads[i].tx, "arbitrum", provider)
       THEN Goto(i, "ensure") ELSE Goto(i, "classify")
    /\ UNCHANGED <<_TOKEN_META_CACHE, _TOKEN_META_CACHE_LOADED, cache_file>>
    /\ ThreadFrame

\* _ensure_token_meta_cache_loaded: if _TOKEN_META_CACHE_LOADED: return
EnsureLoaded(i) ==
    /\ At(i, "ensure")
    /\ IF _TOKEN_META_CACHE_LOADED THEN Goto(i, "lookup") ELSE Goto(i, "read")
    /\ UNCHANGED <<_TOKEN_META_CACHE, _TOKEN_META_CACHE_LOADED, cache_file>>
    /\ ThreadFrame

\* _ensure_token_meta_cache_loaded: data = json.load(fh)
ReadCacheFile(i) ==
    /\ At(i, "read")
    /\ threads' = [threads EXCEPT ![i].pc = "apply", ![i].steps = @ + 1,
                                 ![i].data = cache_file]
    /\ UNCHANGED <<_TOKEN_META_CACHE, _TOKEN_META_CACHE_LOADED, cache_file>>
    /\ ThreadFrame

\* _ensure_token_meta_cache_loaded: the loop storing the entries read
ApplyCacheFile(i) ==
    /\ At(i, "apply")
    /\ _TOKEN_META_CACHE' = _ensure_token_meta_cache_loaded(
                                _TOKEN_META_CACHE, FALSE, threads[i].data)
    /\ Goto(i, "mark")
    /\ UNCHANGED <<_TOKEN_META_CACHE_LOADED, cache_file>>
    /\ ThreadFrame

\* _ensure_token_meta_cache_loaded: _TOKEN_META_CACHE_LOADED = True
MarkLoaded(i) ==
    /\ At(i, "mark")
    /\ _TOKEN_META_CACHE_LOADED' = TRUE
    /\ Goto(i, "lookup")
    /\ UNCHANGED <<_TOKEN_META_CACHE, cache_file>>
    /\ ThreadFrame

\* get_token_meta_cached: if key in _TOKEN_META_CACHE: return it
LookupCache(i) ==
    /\ At(i, "lookup")
    /\ IF CacheHas(_TOKEN_META_CACHE, ThreadKey(i))
       THEN threads' = [threads EXCEPT
                           ![i].pc = "classify", ![i].steps = @ + 1,
                           ![i].meta = CacheGet(_TOKEN_META_CACHE, ThreadKey(i))]
       ELSE Goto(i, "fetch")
    /\ UNCHANGED <<_TOKEN_META_CACHE, _TOKEN_META_CACHE_LOADED, cache_file>>
    /\ ThreadFrame

\* get_token_meta_cached: meta = get_token_meta(addr, network)
FetchMeta(i) ==
    /\ At(i, "fetch")
    /\ threads' = [threads EXCEPT
                      ![i].pc = "store", ![i].steps = @ + 1,
                      ![i].meta = get_token_meta(AppAnswerFor(to_address(threads[i].tx)))]
    /\ UNCHANGED <<_TOKEN_META_CACHE, _TOKEN_META_CACHE_LOADED, cache_file>>
    /\ ThreadFrame

\* get_token_meta_cached: if meta and isinstance(meta, dict): store it
StoreMeta(i) ==
    /\ At(i, "store")
    /\ IF Truthy(threads[i].meta) /\ threads[i].meta.k = "dict"
       THEN /\ _TOKEN_META_CACHE' = CachePut(_TOKEN_META_CACHE, ThreadKey(i),
                                             threads[i].meta)
            /\ Goto(i, "save")
       ELSE /\ _TOKEN_META_CACHE' = _TOKEN_META_CACHE
            /\ threads' = [threads EXCEPT ![i].pc = "classify", ![i].steps = @ + 1,
                                          ![i].meta = EmptyMeta]
    /\ UNCHANGED <<_TOKEN_META_CACHE_LOADED, cache_file>>
    /\ ThreadFrame

\* what a save leaves on disk: the cache; or, when another thread changes the
\* dict while json.dump walks it, the file as it was (the exception is
\* swallowed); or, when another thread writes the same .tmp file at the same
\* time, a file that does not parse
SaveOutcomes(i) ==
    {_save_token_meta_cache_to_disk(_TOKEN_META_CACHE, cache_file)}
      \cup (IF \E j \in 1..Len(threads) : j # i /\ threads[j].pc \in {"apply", "store"}
            THEN {cache_file} ELSE {})
      \cup (IF \E j \in 1..Len(threads) : j # i /\ threads[j].pc = "save"
            THEN {[k |-> "invalid", entries |-> {}, writable |-> cache_file.writable]}
            ELSE {})

\* get_token_meta_cached: _save_token_meta_cache_to_disk()
SaveCache(i) ==
    /\ At(i, "save")
    /\ cache_file' \in SaveOutcomes(i)
    /\ Goto(i, "classify")
    /\ UNCHANGED <<_TOKEN_META_CACHE, _TOKEN_META_CACHE_LOADED>>
    /\ ThreadFrame

\* the pattern rules, the generic heuristic and the return
CallReturns(i) ==
    /\ At(i, "classify")
    /\ threads' = [threads EXCEPT
                      ![i].pc = "done", ![i].steps = @ + 1,
                      ![i].result = analyze_defi_interaction(threads[i].tx, "arbitrum",
                                        [provider EXCEPT !.token_meta = threads[i].meta])]
    /\ UNCHANGED <<_TOKEN_META_CACHE, _TOKEN_META_CACHE_LOADED, cache_file>>
    /\ ThreadFrame

InitThreads ==
    /\ tx = PlainTransfer
    /\ network = ""
    /\ provider \in ThreadProviders
    /\ result = NotCalled
    /\ pc = "idle"
    /\ calls = <<>>
    /\ BatchIdle
    /\ SaveIdle
    /\ _TOKEN_META_CACHE = {}
    /\ _TOKEN_META_CACHE_LOADED = FALSE
    /\ cache_file \in ThreadCacheFiles
    /\ cache_log = <<>>
    /\ disk_at_start = cache_file
    /\ threads \in [1..MaxThreads ->
                      [tx : ThreadTransactions, pc : {"start"}, data : {cache_file},
                       meta : {NotAsked}, result : {NotCalled}, steps : {0}]]

NextThreads ==
    \/ \E i \in 1..Len(threads) : CallBegins(i)
    \/ \E i \in 1..Len(threads) : EnsureLoaded(i)
    \/ \E i \in 1..Len(threads) : ReadCacheFile(i)
    \/ \E i \in 1..Len(threads) : ApplyCacheFile(i)
    \/ \E i \in 1..Len(threads) : MarkLoaded(i)
    \/ \E i \in 1..Len(threads) : LookupCache(i)
    \/ \E i \in 1..Len(threads) : FetchMeta(i)
    \/ \E i \in 1..Len(threads) : StoreMeta(i)
    \/ \E i \in 1..Len(threads) : SaveCache(i)
    \/ \E i \in 1..Len(threads) : CallReturns(i)

SpecThreads == InitThreads /\ [][NextThreads]_vars

----------------------------------------------------------------------------
(* The life of a job under fair scheduling: process_job with its
   process_network threads, as in SpecBatch, together with the exit of
   process_job through its except branch. The worker threads and the job
   thread are scheduled fairly: a thread that can take a step takes one. *)

\* a _fail_job that leaves an empty CSV behind
_fail_job_with_csv(job, error_message) ==
    [job EXCEPT !.status = "failed", !.error = PyStr(error_message),
                !.csv_bytes = CsvOf(<<>>)]

\* _fail_job(job_id, str(e))
_fail_job(job, error_message) ==
    [job EXCEPT !.status = "failed", !.error = PyStr(error_message)]

\* process_job after joining its threads: writing or encoding the CSV raises
\* and the except branch calls _fail_job
FailJob ==
    /\ JOBS # NoJob
    /\ JOBS.status = "running"
    /\ \A n \in DOMAIN worker : worker[n].pc \in {"done", "failed"}
    /\ JOBS' = _fail_job(JOBS, "csv")
    /\ UNCHANGED <<calls, cacheVars, saveVars, threadVars>>
    /\ UNCHANGED <<tx, network, provider, result, pc,
                   networks, explorer, worker, all_transactions_local, response>>

\* a step of the process_network thread of network n
WorkerRuns(n) ==
    /\ n \in Range(networks)
    /\ \/ FetchNetwork(n)
       \/ ProcessTransaction(n)
       \/ PublishRows(n)

NextJob ==
    \/ StartJob
    \/ \E n \in Range(networks) : FetchNetwork(n)
    \/ \E n \in Range(networks) : ProcessTransaction(n)
    \/ \E n \in Range(networks) : PublishRows(n)
    \/ FinishJob
    \/ FailJob

FairScheduling ==
    /\ WF_vars(StartJob)
    /\ \A n \in NetworkKeys : WF_vars(WorkerRuns(n))
    /\ WF_vars(FinishJob \/ FailJob)

SpecJob == InitBatch /\ [][NextJob]_vars /\ FairScheduling
----------------------------------------------------------------------------
(* Vocabulary of the properties *)

PlainERC20Selectors == {"0xa9059cbb", "0x095ea7b3", "0x23b872dd"}

Done == pc = "returned"

\* the input is missing, empty or "0x", or starts with a plain ERC-20 selector
TrivialTransfer(t) ==
    \/ t.input \in {Absent, PyNone, PyStr(""), PyStr("0x")}
    \/ t.input.k = "str" /\ Prefix(t.input.s, 10) \in PlainERC20Selectors

NonTrivial(t) == ~TrivialTransfer(t)

\* the transaction's `to`, lower-cased, "" when missing
ToOf(t) == IF t.to.k = "str" THEN Lower(t.to.s) ELSE ""

\* the first 10 characters of the input, "" when it has fewer
SelectorOf(t) ==
    IF t.input.k = "str" /\ Len(t.input.s) >= 10 THEN SubSeq(t.input.s, 1, 10) ELSE ""

\* functionName is a non-empty text before its first '('
StrippedFunctionName(t) ==
    IF t.functionName.k = "str" THEN Strip(BeforeParen(t.functionName.s)) ELSE ""

NoFunctionName(t) == t.functionName \in {Absent, PyNone, PyStr("")}

IsNull(c) ==
    /\ c.protocol = PyNone /\ c.action = PyNone /\ c.type = PyNone
    /\ c.group = PyNone /\ c.exchange = PyNone

\* index of the first primary rule of the network listing the address, 0 if none
PrimaryRuleIndex(net, addr) ==
    IF net = "arbitrum"
    THEN LET Listed(j) == addr \in Range(RuleListedAddresses[j]["arbitrum"])
         IN  FirstIndex([j \in 1..Len(protocols_to_check) |-> Listed(j)])
    ELSE IF net = "flare"
    THEN LET Listed(j) == addr \in Range(FlareListedAddresses[j])
         IN  FirstIndex([j \in 1..Len(FLARE_DEFI_PROTOCOLS) |-> Listed(j)])
    ELSE 0

PrimaryRuleName(net, i) ==
    IF net = "arbitrum" THEN protocols_to_check[i].protocol_name
    ELSE FLARE_DEFI_PROTOCOLS[i].protocol

PrimaryRuleMethods(net, i) ==
    IF net = "arbitrum" THEN protocols_to_check[i].protocol_config["arbitrum"].methods
    ELSE FLARE_DEFI_PROTOCOLS[i].methods

InSecondaryTable(addr) ==
    \E j \in 1..Len(ARBITRUM_DEFI_PROTOCOLS) : addr \in Range(SecondaryListedAddresses[j])

\* the address is listed by some address table of the network
Cataloged(net, addr) ==
    \/ PrimaryRuleIndex(net, addr) # 0
    \/ net = "arbitrum" /\ InSecondaryTable(addr)
    \/ net = "flare" /\ addr \in StakingAddresses

----------------------------------------------------------------------------
(* Properties of analyze_defi_interaction *)

\* C1 - Trivial-transfer invariant: whatever the network, `to`, functionName
\* and gasUsed are, a call whose input is missing, empty or "0x", or whose
\* first 10 input characters are a plain ERC-20 selector, returns is_defi = False.
C1_TrivialTransfer ==
    (Done /\ TrivialTransfer(tx)) =>
        (result.k = "returned" /\ result.v.is_defi = FALSE)

\* an approve call sent to the Aave pool with a functionName and
\* high gas was classified as not DeFi
C1_Witness ==
    /\ Done /\ network = "arbitrum"
    /\ tx.to = PyStr(AAVE_POOL)
    /\ tx.input = PyStr("0x095ea7b3")
    /\ tx.functionName = PyStr("swap(uint256,address)")
    /\ tx.gasUsed = PyStr("200001")
    /\ result = Returned(ZeroResult)

\* C2 - Null-field invariant: a returned classification with is_defi = False
\* has protocol, action, type, group and exchange all None, on every return
\* path.
C2_NullFields ==
    (Done /\ result.k = "returned" /\ ~result.v.is_defi) => IsNull(result.v)

\* the metadata lookup raised and was swallowed, then int(gasUsed) raised and
\* was caught by the outer handler
C2_Witness ==
    /\ Done /\ network = "arbitrum"
    /\ provider.token_meta = [k |-> "raise"]
    /\ tx.gasUsed = PyStr("0x5208")
    /\ tx.functionName = PyStr("doSomethingComplex(bytes)")
    /\ result.k = "returned" /\ ~result.v.is_defi

\* C3 - functionName precedence: for a non-trivial transaction whose `to` is
\* listed by any address table of the network and whose functionName has a
\* non-empty text before '(', the action is that text.
C3_FunctionNamePrecedence ==
    (/\ Done /\ NonTrivial(tx)
     /\ Cataloged(network, ToOf(tx))
     /\ StrippedFunctionName(tx) # "") =>
        (result.k = "returned" /\ result.v.action = PyStr(StrippedFunctionName(tx)))

\* C4 - Address-match precedence: on arbitrum, a non-trivial transaction
\* whose `to` is listed by a primary rule and by ARBITRUM_DEFI_PROTOCOLS gets
\* the primary rule's classification: its protocol, exchange, group override
\* and functionName-preferred action.
C4_PrimaryWins ==
    (/\ Done /\ network = "arbitrum" /\ NonTrivial(tx)
     /\ PrimaryRuleIndex("arbitrum", ToOf(tx)) # 0
     /\ InSecondaryTable(ToOf(tx))) =>
        LET rule == protocols_to_check[PrimaryRuleIndex("arbitrum", ToOf(tx))]
            fn == StrippedFunctionName(tx)
            selAction == FirstAction(rule.protocol_config["arbitrum"].methods, SelectorOf(tx))
            c == result.v
        IN  /\ result.k = "returned" /\ c.is_defi
            /\ c.protocol = PyStr(rule.protocol_name)
            /\ c.exchange = PyStr(Lookup(EXCHANGE_NAMES, rule.protocol_name, ""))
            /\ fn # "" => /\ c.action = PyStr(fn)
                          /\ c.group = PyStr(GroupForFunctionName(rule.protocol_name, rule.default_group))
            /\ (fn = "" /\ selAction # "") =>
                          /\ c.action = PyStr(selAction)
                          /\ c.group = PyStr(GroupForSelector(rule.protocol_name, selAction, rule.default_group))
            /\ (fn = "" /\ selAction = "") =>
                          /\ c.action = PyStr("interaction")
                          /\ c.group = PyStr(rule.default_group)

\* the Aave pool, listed by both tables, with a functionName: the secondary
\* entry would have answered with another classification
C4_Witness ==
    /\ Done /\ network = "arbitrum"
    /\ tx.to = PyStr(AAVE_POOL)
    /\ tx.input = PyStr("0x617ba037" \o Zeros(MaxData))
    /\ tx.functionName = PyStr("doSomethingComplex(bytes)")
    /\ result.k = "returned"
    /\ result.v.action = PyStr("doSomethingComplex")
    /\ SecondaryProtocolMatch(ToOf(tx), SelectorOf(tx)) # << result.v >>

\* the first action name, in declared order, whose selector is sig; "" if none
DeclaredAction(methods, sig) ==
    LET hits == SelectSeq(methods, LAMBDA m : m.method = sig)
    IN  IF hits = <<>> THEN "" ELSE hits[1].action

\* the classification the selector branch of a primary rule is to give
SelectorDerived(c, net, t) ==
    LET i == PrimaryRuleIndex(net, ToOf(t))
        a == DeclaredAction(PrimaryRuleMethods(net, i), SelectorOf(t))
    IN  /\ c.is_defi
        /\ c.protocol = PyStr(PrimaryRuleName(net, i))
        /\ a # "" => /\ c.action = PyStr(a)
                     /\ c.type = PyStr(Lookup(TRANSACTION_TYPES, a, "Trade"))
        /\ a = "" => /\ c.action = PyStr("interaction")
                     /\ c.type = PyStr("Trade")
        /\ (net = "arbitrum" /\ ToOf(t) = Lower(AAVE_POOL) /\ SelectorOf(t) = "0x617ba037") =>
              /\ c.action = PyStr("supply") /\ c.type = PyStr("Deposit")
              /\ c.group = PyStr("Lending")
        /\ (net = "arbitrum" /\ ToOf(t) = Lower(AAVE_POOL) /\ SelectorOf(t) = "0x693ec85e") =>
              c.action = PyStr("withdraw")

\* C5 as stated - Selector-derived action for every transaction with an empty
\* or absent functionName whose `to` matches a primary rule of the network.
C5_AsStated ==
    (Done /\ NoFunctionName(tx) /\ PrimaryRuleIndex(network, ToOf(tx)) # 0) =>
        (result.k = "returned" /\ SelectorDerived(result.v, network, tx))

\* C5 - Selector-derived action: for every non-trivial transaction with an
\* empty or absent functionName whose `to` matches a primary rule of the
\* network, is_defi is True, protocol is the rule's name, action is the first
\* action of the rule's methods map carrying the selector with its
\* TRANSACTION_TYPES type (default "Trade"), or "interaction"/"Trade" when no
\* selector of the rule matches.
C5_SelectorDerived ==
    (/\ Done /\ NonTrivial(tx) /\ NoFunctionName(tx)
     /\ PrimaryRuleIndex(network, ToOf(tx)) # 0) =>
        (result.k = "returned" /\ SelectorDerived(result.v, network, tx))

\* 0x693ec85e is carried by withdraw and by setUserUseReserveAsCollateral
C5_Witness ==
    /\ Done /\ network = "arbitrum"
    /\ tx.to = PyStr(AAVE_POOL)
    /\ tx.input = PyStr("0x693ec85e" \o Zeros(MaxData))
    /\ tx.functionName = Absent
    /\ result.k = "returned"
    /\ result.v.action = PyStr("withdraw")
    /\ result.v.type = PyStr("Withdrawal")

\* gasUsed is missing or an integer (native or decimal string)
GasWellFormed(t) ==
    \/ t.gasUsed \in {Absent, PyNone}
    \/ t.gasUsed.k = "int"
    \/ t.gasUsed.k = "str" /\ IsDecimal(t.gasUsed.s)

GasOf(t) ==
    IF t.gasUsed \in {Absent, PyNone} THEN 0
    ELSE IF t.gasUsed.k = "int" THEN t.gasUsed.n
    ELSE DecimalValue(t.gasUsed.s)

\* an address, selector-map or metadata step classified the transaction
EarlierStepClassified ==
    NetworkSteps(network, ToOf(tx), input_data(tx), SelectorOf(tx),
                 StrippedFunctionName(tx), provider) # <<>>

\* the "unknown" classification of the generic heuristic
IsUnknownDeFi(c, t) ==
    /\ c.is_defi
    /\ c.protocol = PyStr("unknown")
    /\ c.action = PyStr(IF StrippedFunctionName(t) # "" THEN StrippedFunctionName(t)
                        ELSE "interaction")
    /\ c.type = PyStr("Trade")
    /\ c.group = PyStr("Other")

ComplexCall(t) ==
    \/ /\ StrippedFunctionName(t) # ""
       /\ StrippedFunctionName(t) \notin {"transfer", "approve", "transferFrom"}
    \/ GasOf(t) > 200000

\* the generic heuristic's outcome when it fires exactly under `fires`
GenericOutcome(fires) ==
    /\ result.k = "returned"
    /\ IsUnknownDeFi(result.v, tx) <=> fires
    /\ ~fires => result = Returned(ZeroResult)

\* C6 as stated - the generic heuristic fires iff the input has at least 10
\* characters, a selector that is not a plain ERC-20 one, and a functionName
\* or gasUsed > 200000.
C6_AsStated ==
    (Done /\ GasWellFormed(tx) /\ ~EarlierStepClassified) =>
        GenericOutcome(/\ tx.input.k = "str" /\ Len(tx.input.s) >= 10
                       /\ SelectorOf(tx) \notin PlainERC20Selectors
                       /\ ComplexCall(tx))

\* C6 - Generic complexity heuristic: a transaction that no earlier step
\* classifies is returned as is_defi True, protocol "unknown", action =
\* stripped functionName or "interaction", type "Trade", group "Other" iff its
\* input has more than 10 characters (calldata beyond the selector), its
\* selector is not a plain ERC-20 one and (its stripped functionName is
\* non-empty and not transfer/approve/transferFrom, or gasUsed > 200000);
\* otherwise the zero classification is returned.
C6_GenericHeuristic ==
    (Done /\ GasWellFormed(tx) /\ ~EarlierStepClassified) =>
        GenericOutcome(/\ tx.input.k = "str" /\ Len(tx.input.s) > 10
                       /\ SelectorOf(tx) \notin PlainERC20Selectors
                       /\ ComplexCall(tx))

\* gasUsed = 200001 without a functionName, on a network without rules
C6_Witness ==
    /\ Done /\ network = "ethereum"
    /\ tx.input = PyStr("0xdeadbeef" \o Zeros(MaxData))
    /\ tx.functionName = Absent
    /\ tx.gasUsed = PyStr("200001")
    /\ result.k = "returned"
    /\ IsUnknownDeFi(result.v, tx)

\* the provider was asked and reported `to` to be a contract
ReportedContract ==
    \/ provider.address_info = "is_contract"
    \/ provider.address_info = "raise" /\ provider.is_contract = "true"

\* the provider's token symbol or name matches a Curve LP pattern
CurveMetadata ==
    /\ provider.token_meta.k = "dict"
    /\ LET symbol == IF provider.token_meta.symbol.k = "str" THEN provider.token_meta.symbol.s ELSE ""
           name == IF provider.token_meta.name.k = "str" THEN provider.token_meta.name.s ELSE ""
       IN  \/ \E p \in Range(CURVE_LP_PATTERNS.symbols) : Contains(Upper(p), Upper(symbol))
           \/ \E p \in Range(CURVE_LP_PATTERNS.names) : Contains(Lower(p), Lower(name))

InFallbackMap(sig) == \E i \in 1..Len(method_fallback_map) : method_fallback_map[i].key = sig

IsCurve(c) ==
    /\ c.is_defi /\ c.protocol = PyStr("curve") /\ c.group = PyStr("DEX Liquidity Mining")

\* the hypothesis of the metadata heuristic: `to` in no address table, the
\* selector in no selector map, `to` reported to be a contract whose token
\* symbol or name matches a Curve LP pattern
CurveTokenContract ==
    /\ tx.to.k = "str" /\ tx.to.s # ""
    /\ ~Cataloged("arbitrum", ToOf(tx))
    /\ ~InFallbackMap(SelectorOf(tx))
    /\ SelectorOf(tx) \notin PlainERC20Selectors
    /\ ReportedContract /\ CurveMetadata

\* C7 as stated - Metadata heuristic for every arbitrum transaction whose
\* `to` is in no address table and whose selector is in no selector map.
C7_AsStated ==
    (Done /\ network = "arbitrum" /\ CurveTokenContract) =>
        (result.k = "returned" /\ IsCurve(result.v))

\* C7 - Metadata heuristic: for every non-trivial arbitrum transaction whose
\* `to` is in no address table and whose selector is in no selector map, if
\* `to` is reported to be a contract and its token symbol or name matches a
\* Curve LP pattern, the result is is_defi True, protocol "curve", group
\* "DEX Liquidity Mining", whatever functionName and gasUsed are.
C7_CurveMetadata ==
    (Done /\ network = "arbitrum" /\ NonTrivial(tx) /\ CurveTokenContract) =>
        (result.k = "returned" /\ IsCurve(result.v))

\* the transaction of test_curve_detection_via_token_meta: a functionName and
\* high gas, which the generic heuristic would have labelled "unknown"
C7_Witness ==
    /\ Done /\ network = "arbitrum"
    /\ tx.to = PyStr(UNLISTED_CONTRACT)
    /\ tx.input = PyStr("0xdeadbeef" \o Zeros(MaxData))
    /\ tx.functionName = PyStr("doSomethingComplex(bytes)")
    /\ tx.gasUsed = PyStr("200001")
    /\ provider.address_info = "is_contract"
    /\ provider.token_meta = Meta(PyStr("Some Curve Token"), PyStr("XYZ"))
    /\ result.k = "returned" /\ IsCurve(result.v)

\* C8 - Unknown network: for a network other than "arbitrum" and "flare" the
\* call raises nothing and returns is_defi = False.
C8_UnknownNetwork ==
    (Done /\ network \notin {"arbitrum", "flare"}) =>
        (result.k = "returned" /\ result.v.is_defi = FALSE)

ClassificationKeys == {"is_defi", "protocol", "action", "type", "group", "exchange"}

\* C9 - Missing fields never throw: whichever of to, input, functionName and
\* gasUsed are absent or None, the call raises nothing and returns a mapping
\* with exactly the six classification keys.
C9_MissingFields ==
    Done => (result.k = "returned" /\ DOMAIN result.v = ClassificationKeys)

\* `to`, functionName and gasUsed are None and the input is not trivial, so
\* the call ran through to the generic heuristic
C9_Witness ==
    /\ Done /\ network = "arbitrum"
    /\ tx.to = PyNone
    /\ tx.input = PyStr("0xdeadbeef" \o Zeros(MaxData))
    /\ tx.functionName = PyNone
    /\ tx.gasUsed = PyNone
    /\ result = Returned(ZeroResult)
----------------------------------------------------------------------------
(* Batch isolation *)

\* a classification call that raises or returns no mapping
ClassificationFails(t, n) ==
    LET defi_analysis == app_analyze_defi_interaction(t, n)
    IN  defi_analysis = Raised \/ ~IsDict(defi_analysis.v)

\* the fetched transactions, as (network, transaction) pairs
FetchedPairs ==
    UNION { {<<n, explorer[n].items[i]>> : i \in 1..Len(explorer[n].items)} :
            n \in {m \in Range(networks) : explorer[m] # ExplorerRaises} }

Formats(t, n) == convert_to_required_format(t, DefaultAnalysis, n) # Raised

\* every fetch returned, every fetched transaction can be formatted, one
\* classification call fails and another one succeeds
IsolationCase ==
    /\ \A n \in Range(networks) : explorer[n] # ExplorerRaises
    /\ \A p \in FetchedPairs : Formats(p[2], p[1])
    /\ \E p \in FetchedPairs : ClassificationFails(p[2], p[1])
    /\ \E p \in FetchedPairs : ~ClassificationFails(p[2], p[1])

\* the CSV exists and holds the row of every transaction whose
\* classification succeeded, and one row per fetched transaction at most
CsvCarriesBatch(csv) ==
    /\ csv # PyNone
    /\ \A p \in FetchedPairs :
          ~ClassificationFails(p[2], p[1]) =>
              convert_to_required_format(
                  p[2], app_analyze_defi_interaction(p[2], p[1]).v, p[1]).v
                \in Range(csv.rows)

JobEnded == JOBS # NoJob /\ JOBS.status # "running"

\* the job worker's half of batch isolation: a job whose batch holds a
\* failing classification call completes with the CSV of the others
ProcessJobIsolation ==
    (IsolationCase /\ JobEnded) =>
        JOBS.status = "completed" /\ CsvCarriesBatch(JOBS.csv_bytes)

\* C10: in both batch callers, process_job and /get_transactions, a
\* classification call that raises or returns no Classification for one
\* transaction does not abort the batch: the other transactions are still
\* classified and formatted and the batch yields its CSV
C10_BatchIsolation ==
    IsolationCase =>
        /\ JobEnded =>
              JOBS.status = "completed" /\ CsvCarriesBatch(JOBS.csv_bytes)
        /\ response # NoResponse =>
              response.status = 200 /\ CsvCarriesBatch(response.body)
----------------------------------------------------------------------------
(* Properties of the metadata step *)

\* the provider answering that `to` is a contract without token name or symbol
EmptyMetadataAnswer ==
    [address_info |-> "is_contract", is_contract |-> "not_asked",
     token_meta |-> Meta(PyStr(""), PyStr(""))]

\* the is-contract lookup failed (get_address_info and is_contract both
\* raised), or the token-metadata lookup raised or answered no mapping
MetadataFailure(prov) ==
    \/ prov.address_info = "raise" /\ prov.is_contract = "raise"
    \/ prov.token_meta.k \in {"raise", "None"}

\* the call got as far as the metadata step
ReachesMetadata ==
    /\ network = "arbitrum" /\ NonTrivial(tx)
    /\ ~Cataloged("arbitrum", ToOf(tx))
    /\ ~InFallbackMap(SelectorOf(tx))
    /\ ToOf(tx) # ""

\* C11 - Metadata failure degrades silently: for every transaction that
\* reaches the metadata step, a failing Metadata Provider raises nothing out
\* of the call, and the classification is the one returned when the provider
\* answers with an empty name and an empty symbol.
C11_MetadataFailureSilent ==
    (Done /\ ReachesMetadata /\ MetadataFailure(provider)) =>
        /\ result.k = "returned"
        /\ result = analyze_defi_interaction(tx, network, EmptyMetadataAnswer)

\* get_address_info raised, is_contract said yes, the token lookup raised:
\* the call went on to the generic heuristic
C11_Witness ==
    /\ Done /\ ReachesMetadata
    /\ provider.address_info = "raise" /\ provider.is_contract = "true"
    /\ provider.token_meta = [k |-> "raise"]
    /\ tx.functionName = PyStr("doSomethingComplex(bytes)")
    /\ result.k = "returned"
    /\ IsUnknownDeFi(result.v, tx)

----------------------------------------------------------------------------
(* Properties of repeated calls *)

\* an earlier call had the transaction, network and provider answers of the
\* present one
SameCall(c) == c.tx = tx /\ c.network = network /\ c.provider = provider

----------------------------------------------------------------------------
(* Properties of the token-metadata cache *)

AddressText(addr) == IF addr.k = "str" THEN addr.s ELSE ""

\* two cache calls name the same network and addresses equal up to letter case
SameKey(a, b) ==
    a.net = b.net /\ Lower(AddressText(a.addr)) = Lower(AddressText(b.addr))

\* set_token_meta was called for the key of e between calls i and j
SetBetween(i, j, e) ==
    \E m \in (i + 1)..(j - 1) : cache_log[m].op = "set" /\ SameKey(cache_log[m], e)

\* the pairs of a set_token_meta and a later get_token_meta_cached of the
\* same key with no other set_token_meta of that key in between
SetGetPairs ==
    { <<i, j>> \in (1..Len(cache_log)) \X (1..Len(cache_log)) :
        /\ i < j
        /\ cache_log[i].op = "set" /\ cache_log[j].op = "get"
        /\ SameKey(cache_log[i], cache_log[j])
        /\ ~SetBetween(i, j, cache_log[j]) }

\* C13 as stated - after set_token_meta(addr, net, meta) the cached getter
\* returns meta for every spelling of addr, without calling the provider.
C13_AsStated ==
    \A p \in SetGetPairs :
        /\ cache_log[p[2]].value = cache_log[p[1]].meta
        /\ cache_log[p[2]].asked = <<>>

\* what set_token_meta keeps for a meta argument
Kept(meta) == IF meta = PyNone \/ meta = EmptyDict THEN EmptyMeta ELSE meta

SetThenGet ==
    \A p \in SetGetPairs :
        /\ cache_log[p[2]].value = Kept(cache_log[p[1]].meta)
        /\ cache_log[p[2]].asked = <<>>

\* the entries a call finds: those in memory and, before the first use, the
\* mapping entries of a readable cache file
EntriesFound ==
    _TOKEN_META_CACHE \cup
        (IF ~_TOKEN_META_CACHE_LOADED /\ cache_file.k = "file"
         THEN {f \in cache_file.entries : f.value.k = "dict"} ELSE {})

KeyText(e) == e.net \o ":" \o Lower(AddressText(e.addr))

\* a step of get_token_meta_cached: on a key that is not cached the provider
\* is called once, with the arguments given, and its answer is returned and
\* stored; on a cached key the entry is returned and the provider not called
ReadThrough ==
    (cache_log' # cache_log /\ cache_log'[Len(cache_log')].op = "get") =>
        LET e == cache_log'[Len(cache_log')]
            found == {f \in EntriesFound : f.key = KeyText(e)}
        IN  IF found = {}
            THEN /\ Len(e.asked) = 1
                 /\ e.asked[1].addr = e.addr /\ e.asked[1].net = e.net
                 /\ e.value = e.asked[1].answer
                 /\ [key |-> KeyText(e), value |-> e.value] \in _TOKEN_META_CACHE'
            ELSE /\ e.asked = <<>>
                 /\ \E f \in found : e.value = f.value

\* C13 - Token-metadata cache, read-through and keyed by network plus
\* lower-cased address: after set_token_meta(addr, net, meta) the cached
\* getter returns, for every spelling of addr, what was set (empty name and
\* symbol for a meta that is None or empty) without calling the provider;
\* on a key that is not cached it calls get_token_meta exactly once, returns
\* and stores the answer, and a cached key never reaches the provider.
C13_ReadThrough == []SetThenGet /\ [][ReadThrough]_vars

\* set under one spelling, read under the other
C13_Witness ==
    /\ Len(cache_log) = 2
    /\ cache_log[1].op = "set" /\ cache_log[1].addr = PyStr("0xAbC")
    /\ cache_log[1].meta = Meta(PyStr("TestToken"), PyStr("TT"))
    /\ cache_log[2].op = "get" /\ cache_log[2].addr = PyStr("0xabc")
    /\ cache_log[2].net = cache_log[1].net
    /\ cache_log[2].value = cache_log[1].meta
    /\ cache_log[2].asked = <<>>

----------------------------------------------------------------------------
(* Properties of the selector fallback map *)

\* the protocols whose arbitrum address lists hold the address, in the
\* primary rules or in ARBITRUM_DEFI_PROTOCOLS
OwnersOf(addr) ==
    {protocols_to_check[j].protocol_name :
        j \in {m \in 1..Len(protocols_to_check) :
                 addr \in Range(RuleListedAddresses[m]["arbitrum"])}}
      \cup {ARBITRUM_DEFI_PROTOCOLS[j].protocol :
        j \in {m \in 1..Len(ARBITRUM_DEFI_PROTOCOLS) :
                 addr \in Range(SecondaryListedAddresses[m])}}

\* C14 - The fallback map is applied only when no address match succeeds:
\* on arbitrum, a non-trivial transaction whose `to` is listed in an address
\* table, be it only ARBITRUM_DEFI_PROTOCOLS, is returned with a protocol
\* owning that address, even when its selector is a key of the fallback map.
C14_AddressBeforeFallback ==
    (/\ Done /\ network = "arbitrum" /\ NonTrivial(tx)
     /\ OwnersOf(ToOf(tx)) # {}) =>
        /\ result.k = "returned"
        /\ \E owner \in OwnersOf(ToOf(tx)) : result.v.protocol = PyStr(owner)

----------------------------------------------------------------------------
(* Properties of the Flare staking rule *)

\* C15 - Native-staking special case: on flare, a non-trivial transaction
\* to the WFLR contract or the FTSO manager is classified by the staking
\* rule: protocol "flare_staking", the staking group, and action "stake" of
\* type "Staking" when functionName is empty and no staking method has the
\* selector.
C15_FlareStaking ==
    (/\ Done /\ network = "flare" /\ NonTrivial(tx)
     /\ ToOf(tx) \in StakingAddresses) =>
        /\ result.k = "returned" /\ result.v.is_defi
        /\ result.v.protocol = PyStr("flare_staking")
        /\ result.v.group = PyStr("Stacking (passiv)")
        /\ (/\ StrippedFunctionName(tx) = ""
            /\ FirstAction(FLARE_STAKING_CONFIG.methods, SelectorOf(tx)) = "") =>
               /\ result.v.action = PyStr("stake")
               /\ result.v.type = PyStr("Staking")

----------------------------------------------------------------------------
(* Properties of the metadata step, continued *)

\* C16 - The metadata heuristic is gated by the provider's contract
\* determination: for an arbitrum transaction that the address tables and
\* the fallback map do not classify, the token-pattern rules decide (here:
\* Curve metadata gives the Curve classification) if and only if
\* runtime.is_contract answered true for `to`.
C16_GatedByIsContract ==
    (Done /\ ReachesMetadata /\ result.k = "returned") =>
        (IsCurve(result.v) <=> (provider.is_contract = "true" /\ CurveMetadata))

\* C17 - The metadata heuristic is applied on every supported network: on
\* flare as on arbitrum, a non-trivial transaction to a contract in no table
\* whose token symbol or name matches a Curve pattern is classified as Curve.
C17_MetadataOnEveryNetwork ==
    (/\ Done /\ network \in {"arbitrum", "flare"} /\ NonTrivial(tx)
     /\ tx.to.k = "str" /\ tx.to.s # ""
     /\ ~Cataloged(network, ToOf(tx))
     /\ ~InFallbackMap(SelectorOf(tx))
     /\ ReportedContract /\ CurveMetadata) =>
        (result.k = "returned" /\ IsCurve(result.v))

----------------------------------------------------------------------------
(* Properties of the group override *)

LiquidityActions == {"mint", "burn", "collect"}

\* C18 - Group override is the same in both branches of an address match:
\* for an arbitrum transaction matched by address to uniswap_v3 or
\* sparkdex_v3, group is "DEX Liquidity Mining" exactly when the action is
\* mint, burn or collect, and "DEX Trading" otherwise, whether the action
\* came from functionName or from the selector.
C18_SameGroupOverride ==
    (/\ Done /\ network = "arbitrum" /\ NonTrivial(tx)
     /\ PrimaryRuleIndex("arbitrum", ToOf(tx)) # 0
     /\ PrimaryRuleName("arbitrum", PrimaryRuleIndex("arbitrum", ToOf(tx)))
            \in {"uniswap_v3", "sparkdex_v3"}) =>
        /\ result.k = "returned"
        /\ result.v.group =
             (IF result.v.action \in {PyStr(a) : a \in LiquidityActions}
              THEN PyStr("DEX Liquidity Mining") ELSE PyStr("DEX Trading"))

----------------------------------------------------------------------------
(* Properties of the selector fallback map, continued *)

\* the action names the arbitrum methods maps of the known protocols hold
\* for a selector
ActionsNamedFor(sig) ==
    {FirstAction(protocols_to_check[j].protocol_config["arbitrum"].methods, sig) :
        j \in 1..Len(protocols_to_check)} \ {""}

\* C20 - Action recovery in the selector fallback: on arbitrum, a
\* transaction classified by the fallback map gets an action name that a
\* known protocol's arbitrum methods map holds for the selector, "interaction"
\* only if none holds the selector, and the type of that action.
C20_FallbackActionRecovery ==
    (/\ Done /\ network = "arbitrum" /\ NonTrivial(tx)
     /\ PrimaryRuleIndex("arbitrum", ToOf(tx)) = 0
     /\ InFallbackMap(SelectorOf(tx))) =>
        /\ result.k = "returned" /\ result.v.is_defi
        /\ IF ActionsNamedFor(SelectorOf(tx)) # {}
           THEN \E a \in ActionsNamedFor(SelectorOf(tx)) :
                   /\ result.v.action = PyStr(a)
                   /\ result.v.type = PyStr(TypeOf(a, "Trade"))
           ELSE result.v.action = PyStr("interaction")

----------------------------------------------------------------------------
(* Properties of the exception handling *)

\* C19 - Fail-safe on internal exceptions: whatever is raised inside
\* analyze_defi_interaction - by a `to` or an input that is no string, while
\* matching, or by a gasUsed that int() rejects - is caught, and the call
\* returns the zero classification.
C19_FailSafe ==
    Done =>
        /\ result.k = "returned"
        /\ (tx.to.k = "int" \/ tx.input.k = "int" \/ tx.gasUsed = PyStr("0x5208")) =>
              result.v = ZeroResult

----------------------------------------------------------------------------
(* Properties of the token-pattern rules *)

MetaText(v) == IF v.k = "str" THEN v.s ELSE ""

\* the provider's token symbol or name holds a pattern of the rule, letter
\* case ignored
MatchesIgnoringCase(patterns) ==
    /\ provider.token_meta.k = "dict"
    /\ \/ \E p \in Range(patterns.symbols) :
             Contains(Upper(p), Upper(MetaText(provider.token_meta.symbol)))
       \/ \E p \in Range(patterns.names) :
             Contains(Lower(p), Lower(MetaText(provider.token_meta.name)))

\* the call got as far as the token-pattern rules and asked for the metadata
PatternRulesAsked == ReachesMetadata /\ ReportedContract

\* C21 - Pattern matching is case-insensitive for every configured pattern:
\* a token whose name holds a names pattern of a rule, or whose symbol holds
\* a symbols pattern, in any letter case, matches the rule; so the first of
\* Curve, Angle, Liquity with such a pattern names the protocol.
C21_CaseInsensitivePatterns ==
    (Done /\ PatternRulesAsked) =>
        /\ MatchesIgnoringCase(CURVE_LP_PATTERNS) =>
              result.k = "returned" /\ result.v.protocol = PyStr("curve")
        /\ (~MatchesIgnoringCase(CURVE_LP_PATTERNS) /\ MatchesIgnoringCase(ANGLE_PATTERNS)) =>
              result.k = "returned" /\ result.v.protocol = PyStr("angle")
        /\ (/\ ~MatchesIgnoringCase(CURVE_LP_PATTERNS)
            /\ ~MatchesIgnoringCase(ANGLE_PATTERNS)
            /\ MatchesIgnoringCase(LIQUITY_PATTERNS)) =>
              result.k = "returned" /\ result.v.protocol = PyStr("liquity")

----------------------------------------------------------------------------
(* Order of the rules *)

\* the order of the primary rules
CatalogOrder ==
    <<"aave_v3", "openocean", "sparkdex_v3", "uniswap_v3", "sushiswap", "kinetic_market">>

\* names of the primary rules of the network that list the address
ListingRules(net, addr) ==
    IF net = "arbitrum"
    THEN {r \in Range(CatalogOrder) :
            \E j \in 1..Len(protocols_to_check) :
                /\ protocols_to_check[j].protocol_name = r
                /\ addr \in Range(RuleListedAddresses[j]["arbitrum"])}
    ELSE IF net = "flare"
    THEN {r \in Range(CatalogOrder) :
            \E j \in 1..Len(FLARE_DEFI_PROTOCOLS) :
                /\ FLARE_DEFI_PROTOCOLS[j].protocol = r
                /\ addr \in Range(FlareListedAddresses[j])}
    ELSE {}

\* the rule of the set that comes first in the catalog order
FirstInCatalogOrder(rules) ==
    CatalogOrder[CHOOSE i \in 1..Len(CatalogOrder) :
                    /\ CatalogOrder[i] \in rules
                    /\ \A j \in 1..(i - 1) : CatalogOrder[j] \notin rules]

ListedTwice == Cardinality(ListingRules(network, ToOf(tx))) >= 2

\* C22 - Tie-break by catalog order: when `to` is listed by two primary rules
\* of the network, the rule that comes first in the order aave_v3, openocean,
\* sparkdex_v3, uniswap_v3, sushiswap, kinetic_market names the protocol, for
\* every selector and functionName; a non-trivial arbitrum transaction to the
\* router 0xE592...1564 is uniswap_v3, and its action is never taken from
\* SushiSwap's methods map.
C22_CatalogOrderTieBreak ==
    (Done /\ NonTrivial(tx)) =>
        /\ ListedTwice =>
              /\ result.k = "returned"
              /\ result.v.is_defi = TRUE
              /\ result.v.protocol = PyStr(FirstInCatalogOrder(ListingRules(network, ToOf(tx))))
        /\ (network = "arbitrum" /\ ToOf(tx) = SHARED_ROUTER_LOWER) =>
              /\ ListedTwice
              /\ result.k = "returned"
              /\ result.v.protocol = PyStr("uniswap_v3")
              /\ (StrippedFunctionName(tx) = ""
                    /\ FirstAction(UNISWAP_V3_CONFIG["arbitrum"].methods, SelectorOf(tx)) = "")
                 => result.v.action = PyStr("interaction")

\* the router called with a selector that only SushiSwap's methods map holds
C22_Witness ==
    /\ Done /\ NonTrivial(tx)
    /\ network = "arbitrum" /\ ToOf(tx) = SHARED_ROUTER_LOWER
    /\ SelectorOf(tx) = "0x38ed1739"
    /\ StrippedFunctionName(tx) = ""
    /\ FirstAction(SUSHISWAP_CONFIG["arbitrum"].methods, "0x38ed1739") # ""
    /\ FirstAction(UNISWAP_V3_CONFIG["arbitrum"].methods, "0x38ed1739") = ""
    /\ result.k = "returned"
    /\ result.v.protocol = PyStr("uniswap_v3")

\* the metadata holds a pattern of the rule, compared as the rules compare
RuleMatches(patterns) ==
    /\ provider.token_meta.k = "dict"
    /\ PatternMatches(patterns,
                      Upper(OrElse(provider.token_meta.symbol, PyStr("")).s),
                      Lower(OrElse(provider.token_meta.name, PyStr("")).s))

Classified(protocol, group, action, type) ==
    /\ result.k = "returned"
    /\ result.v.is_defi = TRUE
    /\ result.v.protocol = PyStr(protocol)
    /\ result.v.group = PyStr(group)
    /\ result.v.action = PyStr(action)
    /\ result.v.type = PyStr(type)

\* C23 - Pattern-rule order: the token-pattern rules are tested in the order
\* Curve, Angle, Liquity and the first rule with a matching symbol or name
\* pattern decides protocol, group, action and type; metadata matching Curve
\* and also Angle or Liquity yields curve, metadata matching Angle and
\* Liquity but not Curve yields angle.
C23_PatternRuleOrder ==
    (Done /\ PatternRulesAsked) =>
        /\ RuleMatches(CURVE_LP_PATTERNS) =>
              Classified("curve", "DEX Liquidity Mining", "add_liquidity", "Deposit")
        /\ (~RuleMatches(CURVE_LP_PATTERNS) /\ RuleMatches(ANGLE_PATTERNS)) =>
              Classified("angle", "Stablecoin", "interaction", "Trade")
        /\ (/\ ~RuleMatches(CURVE_LP_PATTERNS)
            /\ ~RuleMatches(ANGLE_PATTERNS)
            /\ RuleMatches(LIQUITY_PATTERNS)) =>
              Classified("liquity", "Lending", "borrow", "Borrowing")

\* metadata that holds an Angle and a Liquity pattern and no Curve pattern
C23_Witness ==
    /\ Done /\ PatternRulesAsked
    /\ ~RuleMatches(CURVE_LP_PATTERNS)
    /\ RuleMatches(ANGLE_PATTERNS) /\ RuleMatches(LIQUITY_PATTERNS)
    /\ result.k = "returned" /\ result.v.protocol = PyStr("angle")

\* metadata that holds a Curve and a Liquity pattern
C23_WitnessCurve ==
    /\ Done /\ PatternRulesAsked
    /\ RuleMatches(CURVE_LP_PATTERNS) /\ RuleMatches(LIQUITY_PATTERNS)
    /\ result.k = "returned" /\ result.v.protocol = PyStr("curve")

----------------------------------------------------------------------------
(* Independence of the lower-confidence inputs *)

\* an address rule or the selector fallback map classifies the transaction
SpecificMatch(t, net) ==
    /\ NonTrivial(t)
    /\ \/ Cataloged(net, ToOf(t))
       \/ net = "arbitrum" /\ InFallbackMap(SelectorOf(t))

\* the runs that differ from the one made only in the provider's answers, and
\* those that differ from it only in gasUsed; every pair of runs on the same
\* remaining inputs is joined by one step of each kind
OtherRuns ==
    {analyze_defi_interaction(tx, network, p) : p \in ProviderAnswers}
      \cup {analyze_defi_interaction([tx EXCEPT !.gasUsed = g], network, provider) :
                g \in GasUsedValues}

\* C24 - Lower-confidence inputs never influence a more specific match: for
\* a transaction that an address rule or the selector fallback map
\* classifies, runs that differ only in the is-contract answer, the token
\* name and symbol, or gasUsed return equal Classifications.
C24_Noninterference ==
    (Done /\ SpecificMatch(tx, network)) => OtherRuns = {result}

\* a fallback-map selector sent to a contract that is in no table, whose
\* metadata is a Curve token's and whose gasUsed is above the threshold
C24_Witness ==
    /\ Done /\ SpecificMatch(tx, network)
    /\ ~Cataloged(network, ToOf(tx))
    /\ PatternRulesAsked = FALSE
    /\ ReportedContract /\ RuleMatches(CURVE_LP_PATTERNS)
    /\ tx.gasUsed = PyStr("200001")
    /\ result.k = "returned" /\ result.v.is_defi = TRUE
    /\ result.v.protocol # PyStr("curve")

----------------------------------------------------------------------------
(* The two classifiers *)

\* C27 - The two implementations of the classifier are observationally
\* equivalent: for every transaction, network and provider answers, the
\* monolith's app.analyze_defi_interaction and
\* app_new.services.defi.analyze_defi_interaction return equal
\* Classifications.
C27_SameAsMonolith ==
    Done => app_analyze_defi_interaction(tx, network) = result


----------------------------------------------------------------------------
(* Shape of a DeFi result *)

IsString(v) == v.k = "str"

\* C28 - DeFi results are fully populated: whenever the call returns
\* is_defi = True, protocol, action, type, group and exchange are all strings,
\* none of them None, whichever step produced the match.
C28_FullyPopulated ==
    (Done /\ result.k = "returned" /\ result.v # PyNone /\ result.v.is_defi = TRUE) =>
        \A f \in {"protocol", "action", "type", "group", "exchange"} :
            IsString(result.v[f])

\* a DeFi result of the secondary address table, whose exchange is read from
\* the entry's name without a default
C28_Witness ==
    /\ Done /\ result.k = "returned" /\ result.v # PyNone
    /\ result.v.is_defi = TRUE
    /\ network = "arbitrum"
    /\ PrimaryRuleIndex("arbitrum", ToOf(tx)) = 0
    /\ ~InFallbackMap(SelectorOf(tx))
    /\ InSecondaryTable(ToOf(tx))
    /\ IsString(result.v.exchange)

----------------------------------------------------------------------------
(* Failed metadata lookups *)

\* call i of the log is a get_token_meta_cached that asked the provider while
\* it failed: app.get_token_meta raised or answered nothing
FailedLookup(i) ==
    /\ cache_log[i].op = "get"
    /\ Len(cache_log[i].asked) = 1
    /\ cache_log[i].app \in {[k |-> "raise"], EmptyDict}

\* a later get_token_meta_cached of the key of call i, with no set_token_meta
\* of that key in between
LaterLookups(i) ==
    {j \in (i + 1)..Len(cache_log) :
        /\ cache_log[j].op = "get"
        /\ SameKey(cache_log[i], cache_log[j])
        /\ ~SetBetween(i, j, cache_log[j])}

\* no token-pattern rule matches the metadata
NoPatternRule(meta) ==
    \A patterns \in {CURVE_LP_PATTERNS, ANGLE_PATTERNS, LIQUITY_PATTERNS} :
        ~PatternMatches(patterns, Upper(OrElse(meta.symbol, PyStr("")).s),
                        Lower(OrElse(meta.name, PyStr("")).s))

\* C29 - A failed metadata lookup is cached like an answer: once
\* get_token_meta_cached(addr, net) has been called while the provider fails
\* (get_token_meta answering empty name and symbol),
\* every later get_token_meta_cached call for the same key returns the empty
\* metadata without asking the provider again, also when the provider would
\* answer by then, and no token-pattern rule matches what it returns.
C29_FailureCached ==
    \A i \in 1..Len(cache_log) :
        FailedLookup(i) =>
            /\ cache_log[i].asked[1].answer = EmptyMeta
            /\ cache_log[i].value = EmptyMeta
            /\ \A j \in LaterLookups(i) :
                  /\ cache_log[j].value = EmptyMeta
                  /\ cache_log[j].asked = <<>>
                  /\ NoPatternRule(cache_log[j].value)

\* a lookup while the provider raises, then one of the same key under another
\* spelling when the provider has an answer
C29_Witness ==
    /\ Len(cache_log) >= 2
    /\ FailedLookup(1) /\ cache_log[1].app = [k |-> "raise"]
    /\ 2 \in LaterLookups(1)
    /\ cache_log[1].addr = PyStr("0xAbC") /\ cache_log[2].addr = PyStr("0xabc")
    /\ cache_log[2].app = Meta(PyStr("FB"), PyStr("FB"))
    /\ cache_log[2].value = EmptyMeta
    /\ cache_log[2].asked = <<>>

----------------------------------------------------------------------------
(* The debounced save *)

Pending == {t \in 1..Len(timers) : timers[t] = "waiting"}

\* C26 - Debounced cache persistence: every call of
\* schedule_save_token_meta_cache cancels the pending save timer and starts a
\* new one, so that for every interleaving of scheduling threads with the
\* timer's worker at most one save timer is pending at any time.
C26_OnePendingTimer == Cardinality(Pending) <= 1

----------------------------------------------------------------------------
(* Calls in threads *)

\* the metadata the call gets when it runs alone: the cache file's entry for
\* the key if it has one, else the provider's answer
AloneMeta(t) ==
    LET key == token_meta_key(PyStr(to_address(t)), "arbitrum")
        loaded == _ensure_token_meta_cache_loaded({}, FALSE, disk_at_start)
    IN  IF CacheHas(loaded, key) THEN CacheGet(loaded, key)
        ELSE get_token_meta(AppAnswerFor(to_address(t)))

\* the Classification the call returns when it runs alone
AloneResult(t) ==
    analyze_defi_interaction(t, "arbitrum",
        [provider EXCEPT !.token_meta =
            IF MetadataAsked(t, "arbitrum", provider) THEN AloneMeta(t) ELSE NotAsked])

\* the longest path of a call: begin, ensure, read, apply, mark, lookup,
\* fetch, store, save, return
ThreadPositions ==
    {"start", "ensure", "read", "apply", "mark", "lookup", "fetch", "store", "save",
     "classify"}

LongestPath == Cardinality(ThreadPositions)

\* no call repeats a step or stands still for another: a call has returned
\* after at most LongestPath steps of its own, however the steps of the
\* others fall in between
NeverWaits ==
    \A i \in 1..Len(threads) :
        /\ threads[i].steps <= LongestPath
        /\ threads[i].pc = "start" <=> threads[i].steps = 0
        /\ threads[i].steps = LongestPath => threads[i].pc = "done"

----------------------------------------------------------------------------
(* The life of a job *)

JobExists == JOBS # NoJob

Ended == JobExists /\ JOBS.status \in {"completed", "failed"}

\* a job starts running, without a CSV
StartsRunning ==
    [][(~JobExists /\ JobExists') =>
            JOBS'.status = "running" /\ JOBS'.csv_bytes = PyNone]_vars

\* a job that has ended keeps its status
StaysEnded == [][Ended => (JobExists' /\ JOBS'.status = JOBS.status)]_vars

\* the CSV is there only when the job has completed
CsvOnlyWhenCompleted ==
    (JobExists /\ JOBS.csv_bytes # PyNone) => JOBS.status = "completed"

\* C30 - Job lifecycle: a job created by _init_job and run by process_job
\* starts with status "running" and, under fair scheduling and with every
\* network fetch returning or raising, eventually reaches "completed" or
\* "failed" and keeps that status forever, also when every worker thread
\* fails and when classification or formatting of transactions fails;
\* csv_bytes is non-null only in status "completed".
C30_JobLifecycle ==
    /\ StartsRunning
    /\ JobExists ~> Ended
    /\ StaysEnded
    /\ []CsvOnlyWhenCompleted
    /\ [](JobExists => JOBS.status \in {"running", "completed", "failed"})

\* a job whose every worker thread failed has completed, with a CSV
C30_Witness ==
    /\ JobExists /\ JOBS.status = "completed"
    /\ JOBS.csv_bytes # PyNone
    /\ Len(networks) = 2
    /\ \A n \in Range(networks) : worker[n].pc = "failed"

\* a job that ended through the except branch
C30_WitnessFailed ==
    /\ JobExists /\ JOBS.status = "failed"
    /\ JOBS.csv_bytes = PyNone
    /\ \E n \in Range(networks) : worker[n].pc = "done" /\ Len(worker[n].txs) = MaxBatch

====
